---- MODULE Spec2Model ----
(***************************************************************************)
(* yubihsm-go: the SCP03 secure channel (securechannel/channel.go).        *)
(*                                                                         *)
(* One SecureChannel is shared by the callers of Callers.  Every method is *)
(* cut into the steps between which another goroutine can observe or       *)
(* change the channel: the unlocked entry checks, the acquisition of       *)
(* channelLock, and the statements executed under the lock.  The connector *)
(* (and the HSM behind it) is the environment: each Request returns any    *)
(* of the outcomes a transport / a device can produce.                     *)
(*                                                                         *)
(* Cryptography is symbolic: AES-CMAC, the SCP03 KDF and AES-CBC are free  *)
(* constructors (two results are equal iff key and input are equal), byte  *)
(* strings carry their length.                                             *)
(***************************************************************************)
EXTENDS Integers, Sequences, FiniteSets, TLC

(***************************************************************************)
(* Bounds of the model.                                                    *)
(***************************************************************************)
\* calls made on the channel, by all callers together
MaxCalls == 3
\* a channel that is already in use starts Headroom messages below the cap
Headroom == 1

Callers == {"g1", "g2"}
\* the callers of the sequential specification (calls never overlap)
SeqCallers == {"g1"}
NoCaller == "none"

(***************************************************************************)
(* Program constants.                                                      *)
(***************************************************************************)
MACLength == 8
ChallengeLength == 8
CryptogramLength == 8
KeyLength == 16
BlockSize == 16
\* the byte that starts the padding
PadMarker == 128

DerivationConstantEncKey == 4
DerivationConstantMACKey == 6
DerivationConstantRMACKey == 7
DerivationConstantDeviceCryptogram == 0
DerivationConstantHostCryptogram == 1

SecurityLevelUnauthenticated == 0
SecurityLevelAuthenticated == 1

MessageTypeCommand == 0
MessageTypeResponse == 1

MaxMessagesPerSession == 10000

ResponseCommandOffset == 128
ErrorResponseCode == 255
CommandTypeEcho == 1
CommandTypeCreateSession == 3
CommandTypeAuthenticateSession == 4
CommandTypeSessionMessage == 5
CommandTypeDeviceInfo == 6
CommandTypeGenerateAsymmetricKey == 70
CommandTypeCloseSession == 64

Uint8 == 256
Uint16 == 65536

(***************************************************************************)
(* Byte strings: a symbolic content and a length.                          *)
(***************************************************************************)
Bytes(content, n) == [bytes |-> content, len |-> n]
NoBytes == Bytes(<<>>, 0)
\* make([]byte, 16): sixteen zero bytes
ZeroChain == Bytes(<<"zero">>, 16)

\* the two halves of the password-derived AuthKey
GetEncKey == Bytes(<<"AuthKey[:16]">>, KeyLength)
GetMacKey == Bytes(<<"AuthKey[16:]">>, KeyLength)

\* src[:n]
Truncate(b, n) == IF b.len = n THEN b ELSE Bytes(<<"first", n, b.bytes>>, n)

\* AES-CMAC of input under key: 16 bytes
CMAC(key, input) == Bytes(<<"cmac", key.bytes, input>>, 16)

\* deriveKDF with the challenges passed explicitly
deriveKDF(key, derivationConstant, keyLen, host, device) ==
    Truncate(CMAC(key, <<"kdf", derivationConstant, 0, (keyLen * 8) % Uint8, 1,
                         host.bytes, device.bytes>>), keyLen)

\* updateKeychain: the three session keys for a pair of challenges
SessionKeys(host, device) ==
    [EncKey  |-> deriveKDF(GetEncKey, DerivationConstantEncKey, KeyLength, host, device),
     MACKey  |-> deriveKDF(GetMacKey, DerivationConstantMACKey, KeyLength, host, device),
     RMACKey |-> deriveKDF(GetMacKey, DerivationConstantRMACKey, KeyLength, host, device)]
NoKeyChain == [EncKey |-> NoBytes, MACKey |-> NoBytes, RMACKey |-> NoBytes]


(***************************************************************************)
(* Commands and responses.                                                 *)
(***************************************************************************)
\* a nil *uint8
NoSessionID == Uint8
NoCommand == [CommandType |-> 0, SessionID |-> NoSessionID, Data |-> NoBytes, MAC |-> NoBytes]
CommandMessage(type, data) ==
    [CommandType |-> type, SessionID |-> NoSessionID, Data |-> data, MAC |-> NoBytes]

\* commands.CreateEchoCommand([]byte("test")), commands.CreateCloseSessionCommand()
CreateEchoCommand == CommandMessage(CommandTypeEcho, Bytes(<<"test">>, 4))
CreateCloseSessionCommand == CommandMessage(CommandTypeCloseSession, NoBytes)
\* the commands a caller passes to SendEncryptedCommand
UserCommands == {CreateEchoCommand}

\* len(c.Serialize()) of a command without session id and MAC
SerializedLen(c) == 3 + c.Data.len

\* len(pad(src)), as pad computes it
PadLen(n) ==
    IF BlockSize - (n % BlockSize) = 0
    THEN n
    ELSE n + 1 + (BlockSize - (n % BlockSize) - 1)

\* block.Encrypt(iv, 0^12 || Counter): the IV of one exchange
DeriveIV(encKey, counter) == Bytes(<<"iv", encKey.bytes, counter>>, KeyLength)

\* AES-CBC of pad(plain) under key and iv; plain is <<content, length>>
CBCEncrypt(key, iv, plain, n) == Bytes(<<"cbc", key.bytes, iv.bytes, plain>>, PadLen(n))

\* what the device answers inside a session message
DeviceReplies == {"ok", "deviceError"}
InnerReply(c, kind) == <<"reply", kind, c.CommandType, c.Data.bytes>>

\* the responses ParseResponse can hand back
NoResponse == [type |-> "nil", SessionID |-> NoSessionID, A |-> NoBytes, B |-> NoBytes]
CreateSessionResponse(sid, cardChallenge, cardCryptogram) ==
    [type |-> "CreateSessionResponse", SessionID |-> sid, A |-> cardChallenge, B |-> cardCryptogram]
SessionMessageResponse(sid, encryptedData, mac) ==
    [type |-> "SessionMessageResponse", SessionID |-> sid, A |-> encryptedData, B |-> mac]
OtherResponse == [type |-> "EchoResponse", SessionID |-> NoSessionID, A |-> NoBytes, B |-> NoBytes]

\* what the environment can choose
SessionIDs == {1, 2}
DeviceChallenges == {Bytes(<<"dc1">>, ChallengeLength), Bytes(<<"dc2">>, ChallengeLength)}
WrongCryptogram == Bytes(<<"wrong">>, CryptogramLength)
ForgedMAC == Bytes(<<"forged">>, MACLength)
TamperedData == Bytes(<<"tampered">>, BlockSize)

\* what a step returns to the caller of a method: (resp, err), err "nil" is success
Result(t, op, resp, err) == [by |-> t, op |-> op, resp |-> resp, err |-> err]
\* the step was no return
NoResult == Result(NoCaller, "none", <<>>, "none")

(***************************************************************************)
(* State.                                                                  *)
(***************************************************************************)
VARIABLES
    \* fields of the SecureChannel
    ID, Counter, SecurityLevel, HostChallenge, DeviceChallenge, keyChain,
    MACChainValue, channelLock,
    \* per caller: position and locals of the running call
    pc, local,
    \* calls made so far (history)
    ncalls,
    \* what the last step returned to its caller, NoResult if it was no return
    result,
    \* every command handed to connector.Request, in order (history)
    sent,
    \* what has happened on the channel so far (history)
    events

VARIABLES
    \* fields of the SessionManager (manager.go; part_005 has lock and destroyed too)
    sessions, lock, poolSize, destroyed, Connected, recycleQueue,
    \* fields of the single-session SessionManager (part_005)
    session, swapping, keepAlive,
    \* the SecureChannel objects a manager has created, in order of creation
    channels,
    \* position of each goroutine of a manager, and the locals of the running
    \* household pass, of the recycler and of the swaps
    gpc, hk, rc, sw,
    \* what the last step of a manager returned or did (history)
    mlast,
    \* notifications received from Connected, housekeeping passes begun, calls
    \* made by clients (history)
    count,
    \* an unrecovered panic has ended the program
    crashed

VARIABLES
    \* the command handed to Serialize and the bytes it returned
    command, wire,
    \* the bytes handed to ParseResponse, and what it returned
    frame, parsed,
    \* the bytes handed to pad or unpad, and what it returned
    src, ret

chanVars == <<ID, Counter, SecurityLevel, HostChallenge, DeviceChallenge, keyChain, MACChainValue>>
channelVars == <<ID, Counter, SecurityLevel, HostChallenge, DeviceChallenge, keyChain,
                 MACChainValue, channelLock, pc, local, ncalls, result, sent, events>>
managerVars == <<sessions, lock, poolSize, destroyed, Connected, recycleQueue,
                 session, swapping, keepAlive, channels, gpc, hk, rc, sw, mlast, count, crashed>>
wireVars == <<command, wire, frame, parsed, src, ret>>
vars == <<channelVars, managerVars, wireVars>>

\* a nil Response, a nil error, and the pair before any call
NilResponse == [type |-> "nil", SessionID |-> 0, A |-> <<>>, B |-> <<>>]
NilError == [kind |-> "nil", Code |-> 0]
NotParsed == [resp |-> NilResponse, err |-> [kind |-> "not called", Code |-> 0]]

\* what pad or unpad returned: the function called, the bytes returned, and
\* whether it panicked instead; NoReturn before any call
Return(op, bytes, panic) == [op |-> op, bytes |-> bytes, panic |-> panic]
NoReturn == Return("none", <<>>, FALSE)

\* no manager has been constructed
NoManager ==
    /\ sessions = <<>>
    /\ lock = NoCaller
    /\ poolSize = 0
    /\ destroyed = FALSE
    /\ Connected = 0
    /\ recycleQueue = <<>>
    /\ session = 0
    /\ swapping = FALSE
    /\ keepAlive = "none"
    /\ channels = <<>>
    /\ gpc = <<>>
    /\ hk = <<>>
    /\ rc = <<>>
    /\ sw = <<>>
    /\ mlast = <<>>
    /\ count = <<>>
    /\ crashed = FALSE

\* no command has been serialized
NoWire ==
    /\ command = NoCommand
    /\ wire = <<>>
    /\ frame = <<>>
    /\ parsed = NotParsed
    /\ src = <<>>
    /\ ret = NoReturn

\* before: the channel as the call found it when it took the lock (history)
NoLocal ==
    [op |-> "none", c |-> NoCommand, iv |-> NoBytes, outer |-> NoCommand,
     resp |-> NoResponse, before |-> <<>>]

\* NewSecureChannel
NewSecureChannel ==
    /\ ID = 0
    /\ Counter = 0
    /\ SecurityLevel = SecurityLevelUnauthenticated
    /\ HostChallenge = Bytes(<<"hc">>, ChallengeLength)
    /\ DeviceChallenge = NoBytes
    /\ keyChain = NoKeyChain
    /\ MACChainValue = ZeroChain

\* a channel that authenticated earlier and has exchanged messages since:
\* Headroom messages are left before the cap
UsedChannel ==
    /\ ID = 1
    /\ Counter = MaxMessagesPerSession - Headroom
    /\ SecurityLevel = SecurityLevelAuthenticated
    /\ HostChallenge = Bytes(<<"hc">>, ChallengeLength)
    /\ DeviceChallenge \in DeviceChallenges
    /\ keyChain = SessionKeys(HostChallenge, DeviceChallenge)
    /\ MACChainValue = Bytes(<<"chain", MaxMessagesPerSession - Headroom>>, 16)

Init ==
    /\ NewSecureChannel \/ UsedChannel
    /\ NoManager
    /\ NoWire
    /\ channelLock = NoCaller
    /\ pc = [t \in Callers |-> "idle"]
    /\ local = [t \in Callers |-> NoLocal]
    /\ result = NoResult
    /\ ncalls = 0
    /\ sent = <<>>
    /\ events = {}


(***************************************************************************)
(* Helpers of the actions.                                                 *)
(***************************************************************************)
\* one more entry in the history of connector requests: the opcode of the
\* command and the value of Counter when it is handed to the connector
Transmit(t, c) ==
    sent' = Append(sent, [CommandType |-> c.CommandType, Counter |-> Counter])

\* the call of t returns (resp, err); the deferred channelLock.Unlock() runs
ReturnUnlock(t, resp, err) ==
    /\ pc' = [pc EXCEPT ![t] = "idle"]
    /\ result' = Result(t, local[t].op, resp, err)
    /\ local' = [local EXCEPT ![t] = NoLocal]
    /\ channelLock' = NoCaller
    /\ UNCHANGED <<managerVars, wireVars>>

\* the call of t returns before it has taken the lock
ReturnEarly(t, op, err) ==
    /\ pc' = [pc EXCEPT ![t] = "idle"]
    /\ result' = Result(t, op, <<>>, err)
    /\ ncalls' = ncalls + 1
    /\ UNCHANGED <<local, channelLock, managerVars, wireVars>>

\* the call of t goes on to its next step
Goto(t, label) ==
    /\ pc' = [pc EXCEPT ![t] = label]
    /\ result' = NoResult
    /\ UNCHANGED <<managerVars, wireVars>>

\* connector.Request failed or ParseResponse returned an error (a malformed frame,
\* an unknown opcode, the device's error frame), or ParseResponse panicked
\* (a decoder slicing a payload shorter than it needs)
RequestFailures == {"request error", "panic"}

\* the MAC computed over the zero chain whatever the chain value is
calculateMACUnchained(c, messageType) ==
    CMAC(IF messageType = MessageTypeCommand THEN keyChain.MACKey ELSE keyChain.RMACKey,
         <<"mac", ZeroChain.bytes, c.CommandType,
           (1 + c.Data.len + MACLength) % Uint16, c.SessionID, c.Data.bytes>>)

\* calculateMAC
calculateMAC(c, messageType) ==
    CMAC(IF messageType = MessageTypeCommand THEN keyChain.MACKey ELSE keyChain.RMACKey,
         <<"mac", MACChainValue.bytes, c.CommandType,
           (1 + c.Data.len + MACLength) % Uint16, c.SessionID, c.Data.bytes>>)

(***************************************************************************)
(* Authenticate                                                            *)
(***************************************************************************)
\* s.SecurityLevel != SecurityLevelUnauthenticated
AlreadyAuthenticated == SecurityLevel # SecurityLevelUnauthenticated

\* the unlocked state check
AuthenticateCall(t) ==
    /\ pc[t] = "idle"
    /\ ncalls < MaxCalls
    /\ IF AlreadyAuthenticated
       THEN /\ ReturnEarly(t, "Authenticate", "the session is already authenticated")
       ELSE /\ Goto(t, "authLock")
            /\ local' = [local EXCEPT ![t] = [NoLocal EXCEPT !.op = "Authenticate"]]
            /\ ncalls' = ncalls + 1
            /\ UNCHANGED channelLock
    /\ UNCHANGED <<chanVars, sent, events>>

AuthLock(t) ==
    /\ pc[t] = "authLock"
    /\ channelLock = NoCaller
    /\ channelLock' = t
    /\ Goto(t, "authCreate")
    /\ local' = [local EXCEPT ![t].before = chanVars]
    /\ UNCHANGED <<chanVars, ncalls, sent, events>>

\* the card cryptogram of a device that holds the auth key
CardCryptogram(host, device) ==
    deriveKDF(SessionKeys(host, device).MACKey, DerivationConstantDeviceCryptogram,
              CryptogramLength, host, device)

\* the CreateSession responses the device can give
CreateSessionResponses ==
    UNION { { CreateSessionResponse(sid, ch, cg) :
                cg \in {CardCryptogram(HostChallenge, ch), WrongCryptogram} } :
            sid \in SessionIDs, ch \in DeviceChallenges }

\* CREATE_SESSION is sent without session id and MAC; the response is cast
AuthCreateSession(t) ==
    /\ pc[t] = "authCreate"
    /\ Transmit(t, CommandMessage(CommandTypeCreateSession, Bytes(<<"slot", HostChallenge.bytes>>, 2 + HostChallenge.len)))
    /\ \/ \E err \in RequestFailures : ReturnUnlock(t, <<>>, err)
       \/ \E r \in {OtherResponse, NoResponse} : ReturnUnlock(t, <<>>, "invalid response type")
       \/ \E r \in CreateSessionResponses :
            /\ local' = [local EXCEPT ![t].resp = r]
            /\ Goto(t, "authRecord")
            /\ UNCHANGED channelLock
    /\ UNCHANGED <<chanVars, ncalls, events>>

\* the session id of the response is not stored
AuthRecordWithoutID(t) ==
    /\ pc[t] = "authRecord"
    /\ DeviceChallenge' = local[t].resp.A
    /\ keyChain' = SessionKeys(HostChallenge, local[t].resp.A)
    /\ Goto(t, "authVerify")
    /\ UNCHANGED <<ID, Counter, SecurityLevel, HostChallenge, MACChainValue, channelLock,
                   local, ncalls, sent, events>>

\* s.ID, s.DeviceChallenge and the key chain are set from the response
AuthRecord(t) ==
    /\ pc[t] = "authRecord"
    /\ ID' = local[t].resp.SessionID
    /\ DeviceChallenge' = local[t].resp.A
    /\ keyChain' = SessionKeys(HostChallenge, local[t].resp.A)
    /\ Goto(t, "authVerify")
    /\ UNCHANGED <<Counter, SecurityLevel, HostChallenge, MACChainValue, channelLock,
                   local, ncalls, sent, events>>

\* the comparison looks at the length of the cryptogram only
CryptogramMatchesLengthOnly(deviceCryptogram, cardCryptogram) ==
    deviceCryptogram.len = cardCryptogram.len

\* bytes.Equal(deviceCryptogram, createSessionResp.CardCryptogram)
CryptogramMatches(deviceCryptogram, cardCryptogram) == deviceCryptogram = cardCryptogram

\* the device cryptogram is derived and compared with the received one
AuthVerifyCryptogram(t) ==
    /\ pc[t] = "authVerify"
    /\ LET deviceCryptogram == deriveKDF(keyChain.MACKey, DerivationConstantDeviceCryptogram,
                                         CryptogramLength, HostChallenge, DeviceChallenge)
       IN  IF ~CryptogramMatches(deviceCryptogram, local[t].resp.B)
           THEN /\ ReturnUnlock(t, <<>>, "authentication failed: device sent wrong cryptogram")
           ELSE /\ Goto(t, "authMAC")
                /\ UNCHANGED <<local, channelLock>>
    /\ UNCHANGED <<chanVars, ncalls, sent, events>>

\* sendMACCommand(AUTHENTICATE_SESSION): session id, MAC, chain value
AuthMAC(t) ==
    /\ pc[t] = "authMAC"
    /\ LET hostCryptogram == deriveKDF(keyChain.MACKey, DerivationConstantHostCryptogram,
                                       CryptogramLength, HostChallenge, DeviceChallenge)
           c   == [CommandMessage(CommandTypeAuthenticateSession, hostCryptogram)
                     EXCEPT !.SessionID = ID]
           sum == calculateMAC(c, MessageTypeCommand)
       IN  /\ MACChainValue' = sum
           /\ local' = [local EXCEPT ![t].outer = [c EXCEPT !.MAC = Truncate(sum, MACLength)]]
    /\ Goto(t, "authTransmit")
    /\ UNCHANGED <<ID, Counter, SecurityLevel, HostChallenge, DeviceChallenge, keyChain,
                   channelLock, ncalls, sent, events>>

\* AUTHENTICATE_SESSION is sent; any response that is no error is accepted
AuthTransmit(t) ==
    /\ pc[t] = "authTransmit"
    /\ Transmit(t, local[t].outer)
    /\ \/ \E err \in RequestFailures : ReturnUnlock(t, <<>>, err)
       \/ /\ Goto(t, "authCounter")
          /\ UNCHANGED <<local, channelLock>>
    /\ UNCHANGED <<chanVars, ncalls, events>>

AuthSetCounter(t) ==
    /\ pc[t] = "authCounter"
    /\ Counter' = 1
    /\ Goto(t, "authLevel")
    /\ UNCHANGED <<ID, SecurityLevel, HostChallenge, DeviceChallenge, keyChain,
                   MACChainValue, channelLock, local, ncalls, sent, events>>

AuthSetLevel(t) ==
    /\ pc[t] = "authLevel"
    /\ SecurityLevel' = SecurityLevelAuthenticated
    /\ ReturnUnlock(t, <<>>, "nil")
    /\ events' = events \cup {IF "authenticated" \in events THEN "authenticated again"
                                                            ELSE "authenticated"}
    /\ UNCHANGED <<ID, Counter, HostChallenge, DeviceChallenge, keyChain, MACChainValue,
                   ncalls, sent>>


(***************************************************************************)
(* SendEncryptedCommand and Close                                          *)
(***************************************************************************)
\* the security level check compared with the wrong level
NotAuthenticatedWrongLevel == SecurityLevel # SecurityLevelUnauthenticated

\* s.SecurityLevel != SecurityLevelAuthenticated
NotAuthenticated == SecurityLevel # SecurityLevelAuthenticated

\* the limit check off by one
LimitReachedOffByOne == Counter > MaxMessagesPerSession

\* s.Counter >= MaxMessagesPerSession
LimitReached == Counter >= MaxMessagesPerSession

\* the unlocked checks of the security level and of the message limit
SendEntry(t, c, op) ==
    /\ pc[t] = "idle"
    /\ ncalls < MaxCalls
    /\ IF NotAuthenticated
       THEN ReturnEarly(t, op, "the session is not authenticated")
       ELSE IF LimitReached
       THEN ReturnEarly(t, op, "channel has reached its message limit; please recreate")
       ELSE /\ Goto(t, "sendLock")
            /\ local' = [local EXCEPT ![t] = [NoLocal EXCEPT !.op = op, !.c = c]]
            /\ ncalls' = ncalls + 1
            /\ UNCHANGED channelLock
    /\ UNCHANGED <<chanVars, sent, events>>

SendEncryptedCommand(t) ==
    \E c \in UserCommands : SendEntry(t, c, "SendEncryptedCommand")

\* Close sends CLOSE_SESSION through SendEncryptedCommand
Close(t) ==
    SendEntry(t, CreateCloseSessionCommand, "Close")

SendLock(t) ==
    /\ pc[t] = "sendLock"
    /\ channelLock = NoCaller
    /\ channelLock' = t
    /\ Goto(t, "sendMAC")
    /\ local' = [local EXCEPT ![t].before = chanVars]
    /\ UNCHANGED <<chanVars, ncalls, sent, events>>

\* the IV is derived from Counter, the command is encrypted and wrapped in a
\* SESSION_MESSAGE; sendMACCommand sets its session id and MAC and the chain value
SendMAC(t) ==
    /\ pc[t] = "sendMAC"
    /\ LET iv  == DeriveIV(keyChain.EncKey, Counter)
           encryptedCommand ==
                  CBCEncrypt(keyChain.EncKey, iv,
                             <<"command", local[t].c.CommandType, local[t].c.Data.bytes>>,
                             SerializedLen(local[t].c))
           c   == [CommandMessage(CommandTypeSessionMessage, encryptedCommand)
                     EXCEPT !.SessionID = ID]
           sum == calculateMAC(c, MessageTypeCommand)
       IN  /\ MACChainValue' = sum
           /\ local' = [local EXCEPT ![t].iv = iv,
                                     ![t].outer = [c EXCEPT !.MAC = Truncate(sum, MACLength)]]
    /\ Goto(t, "sendTransmit")
    /\ UNCHANGED <<ID, Counter, SecurityLevel, HostChallenge, DeviceChallenge, keyChain,
                   channelLock, ncalls, sent, events>>

\* the MAC a device holding the session keys puts on a session message response
DeviceMAC(sid, encryptedData) ==
    Truncate(CMAC(keyChain.RMACKey,
                  <<"mac", MACChainValue.bytes, CommandTypeSessionMessage + ResponseCommandOffset,
                    (1 + encryptedData.len + MACLength) % Uint16, sid, encryptedData.bytes>>),
             MACLength)

\* the encrypted answer of the device to the command of t
DeviceAnswer(t, kind) ==
    CBCEncrypt(keyChain.EncKey, local[t].iv, InnerReply(local[t].c, kind),
               3 + local[t].c.Data.len)

\* some other session id than the channel's
OtherSessionID == CHOOSE sid \in SessionIDs : sid # ID

\* the SessionMessage responses that can arrive
SessionMessageResponses(t) ==
    LET ok == DeviceAnswer(t, "ok")
        ko == DeviceAnswer(t, "deviceError")
    IN  { \* the device's answer, and its answer reporting an error
          SessionMessageResponse(ID, ok, DeviceMAC(ID, ok)),
          SessionMessageResponse(ID, ko, DeviceMAC(ID, ko)),
          \* the answer with its data, its MAC or its session id altered
          SessionMessageResponse(ID, TamperedData, DeviceMAC(ID, ok)),
          SessionMessageResponse(ID, ok, ForgedMAC),
          SessionMessageResponse(OtherSessionID, ok, DeviceMAC(ID, ok)),
          \* data that is no answer, and no data at all, under a valid MAC
          SessionMessageResponse(ID, TamperedData, DeviceMAC(ID, TamperedData)),
          SessionMessageResponse(ID, NoBytes, DeviceMAC(ID, NoBytes)) }

\* the SESSION_MESSAGE is handed to the connector and the response parsed
SendTransmit(t) ==
    /\ pc[t] = "sendTransmit"
    /\ Transmit(t, local[t].outer)
    /\ \/ \E err \in RequestFailures : ReturnUnlock(t, <<>>, err)
       \/ \E r \in SessionMessageResponses(t) \cup {OtherResponse, NoResponse} :
            /\ local' = [local EXCEPT ![t].resp = r]
            /\ Goto(t, "sendVerify")
            /\ UNCHANGED channelLock
    /\ UNCHANGED <<chanVars, ncalls, events>>

\* the comparison looks at the length of the MAC only
MACMatchesLengthOnly(expectedMac, mac) == Truncate(expectedMac, MACLength).len = mac.len

\* bytes.Equal(expectedMac[:MACLength], sessionMessage.MAC)
MACMatches(expectedMac, mac) == Truncate(expectedMac, MACLength) = mac

\* the response is cast to a SessionMessageResponse and its MAC verified
SendVerify(t) ==
    /\ pc[t] = "sendVerify"
    /\ LET sessionMessage == local[t].resp
           expectedMac ==
               calculateMAC([CommandType |-> CommandTypeSessionMessage + ResponseCommandOffset,
                             SessionID |-> sessionMessage.SessionID,
                             Data |-> sessionMessage.A, MAC |-> NoBytes],
                            MessageTypeResponse)
       IN  IF sessionMessage.type # "SessionMessageResponse"
           THEN /\ ReturnUnlock(t, <<>>, "invalid response type")
                /\ UNCHANGED events
           ELSE IF ~MACMatches(expectedMac, sessionMessage.B)
           THEN /\ ReturnUnlock(t, <<>>, "invalid response MAC")
                /\ events' = events \cup {"response MAC failed"}
           ELSE /\ Goto(t, "sendIncr")
                /\ UNCHANGED <<local, channelLock, events>>
    /\ UNCHANGED <<chanVars, ncalls, sent>>

\* s.Counter++ (a uint32: the values the model reaches stay far below 2^32)
SendIncr(t) ==
    /\ pc[t] = "sendIncr"
    /\ Counter' = Counter + 1
    /\ Goto(t, "sendDecrypt")
    /\ UNCHANGED <<ID, SecurityLevel, HostChallenge, DeviceChallenge, keyChain,
                   MACChainValue, channelLock, local, ncalls, sent, events>>

\* AES-CBC decryption under key and iv
CBCDecrypt(key, iv, data) ==
    IF /\ Len(data.bytes) = 4
       /\ data.bytes[1] = "cbc"
       /\ data.bytes[2] = key.bytes
       /\ data.bytes[3] = iv.bytes
    THEN data.bytes[4]
    ELSE <<"garbage">>

\* the response is decrypted with the IV of the request, unpadded and parsed
SendDecrypt(t) ==
    /\ pc[t] = "sendDecrypt"
    /\ LET data  == local[t].resp.A
           plain == CBCDecrypt(keyChain.EncKey, local[t].iv, data)
           done  == IF local[t].op = "Close" THEN {"closed"} ELSE {}
       IN  IF data.len % BlockSize # 0 \/ data.len = 0
           THEN \* CryptBlocks on a partial block, unpad on an empty slice
                /\ ReturnUnlock(t, <<>>, "panic")
                /\ events' = events \cup {"decrypt failed"}
           ELSE IF plain[1] = "reply" /\ plain[2] = "ok"
           THEN /\ ReturnUnlock(t, IF plain[3] = CommandTypeCloseSession THEN <<>> ELSE plain, "nil")
                /\ events' = events \cup done
           ELSE IF plain[1] = "reply"
           THEN \* the device's error frame
                /\ ReturnUnlock(t, <<>>, "parse error")
                /\ UNCHANGED events
           ELSE /\ ReturnUnlock(t, <<>>, "parse error")
                /\ events' = events \cup {"decrypt failed"}
    /\ UNCHANGED <<chanVars, ncalls, sent>>

(***************************************************************************)
(* Specifications.                                                         *)
(***************************************************************************)
Step(t) ==
        \/ AuthenticateCall(t)
        \/ AuthLock(t)
        \/ AuthCreateSession(t)
        \/ AuthRecord(t)
        \/ AuthVerifyCryptogram(t)
        \/ AuthMAC(t)
        \/ AuthTransmit(t)
        \/ AuthSetCounter(t)
        \/ AuthSetLevel(t)
        \/ SendEncryptedCommand(t)
        \/ Close(t)
        \/ SendLock(t)
        \/ SendMAC(t)
        \/ SendTransmit(t)
        \/ SendVerify(t)
        \/ SendIncr(t)
        \/ SendDecrypt(t)

\* any number of goroutines use the channel
Next == \E t \in Callers : Step(t)
Spec == Init /\ [][Next]_vars

\* one goroutine uses the channel: its calls follow one another
NextSeq == \E t \in SeqCallers : Step(t)
SpecSeq == Init /\ [][NextSeq]_vars


(***************************************************************************)
(* Vocabulary of the properties.                                           *)
(***************************************************************************)
SendOps == {"SendEncryptedCommand", "Close"}
SendSteps == {"sendLock", "sendMAC", "sendTransmit", "sendVerify", "sendIncr", "sendDecrypt"}
LastSent == sent[Len(sent)]
\* the first 8 bytes of the CMAC, under S_RMAC, of the chain value followed by the
\* session message response r as it was received
ResponseCMAC8(r) ==
    Truncate(CMAC(keyChain.RMACKey,
                  <<"mac", MACChainValue.bytes, CommandTypeSessionMessage + ResponseCommandOffset,
                    (1 + r.A.len + MACLength) % Uint16, r.SessionID, r.A.bytes>>), MACLength)

(***************************************************************************)
(* C1.  When the calls on a channel follow one another, every successful   *)
(* SendEncryptedCommand (Close included) leaves Counter exactly one above  *)
(* the value its SESSION_MESSAGE was sent under, Counter never exceeds     *)
(* MaxMessagesPerSession, and a step that increments Counter is taken by   *)
(* a call whose request MAC is the current chain value and whose received  *)
(* response MAC equals the CMAC of the response under that chain value.    *)
(***************************************************************************)
C1_CounterStep ==
    /\ Counter' <= MaxMessagesPerSession
    /\ (result'.op \in SendOps /\ result'.err = "nil") =>
          /\ Len(sent) > 0
          /\ LastSent.CommandType = CommandTypeSessionMessage
          /\ Counter' = LastSent.Counter + 1
    /\ (Counter' # Counter /\ SecurityLevel = SecurityLevelAuthenticated) =>
          /\ Counter' = Counter + 1
          /\ \E t \in Callers :
                /\ channelLock = t
                /\ local[t].op \in SendOps
                /\ local[t].outer.MAC = Truncate(MACChainValue, MACLength)
                /\ local[t].resp.type = "SessionMessageResponse"
                /\ local[t].resp.B = ResponseCMAC8(local[t].resp)
C1_SequentialCounter == [][C1_CounterStep]_vars

\* the first Echo after authentication has returned and Counter is 2
C1_Witness ==
    /\ result.op = "SendEncryptedCommand"
    /\ result.err = "nil"
    /\ result.resp = InnerReply(CreateEchoCommand, "ok")
    /\ "authenticated" \in events
    /\ Counter = 2


(***************************************************************************)
(* C2.  No two SESSION_MESSAGE commands handed to the connector on the     *)
(* channel were encrypted under the same value of Counter (an exchange     *)
(* that fails after its MAC was generated still advances Counter).         *)
(***************************************************************************)
C2_NoCounterReuse ==
    \A i, j \in 1..Len(sent) :
        (/\ i # j
         /\ sent[i].CommandType = CommandTypeSessionMessage
         /\ sent[j].CommandType = CommandTypeSessionMessage)
        => sent[i].Counter # sent[j].Counter

(***************************************************************************)
(* C3.  Counter never goes above MaxMessagesPerSession and no              *)
(* SESSION_MESSAGE is handed to the connector once Counter has reached     *)
(* MaxMessagesPerSession, whatever the interleaving of the callers.        *)
(***************************************************************************)
C3_LimitNeverPassed ==
    /\ Counter <= MaxMessagesPerSession
    /\ \A i \in 1..Len(sent) :
          sent[i].CommandType = CommandTypeSessionMessage
          => sent[i].Counter < MaxMessagesPerSession

(***************************************************************************)
(* C4.  On a channel whose SecurityLevel is Unauthenticated no call of     *)
(* SendEncryptedCommand or Close is past its entry check, and a call of    *)
(* either returns an error at once: nothing is handed to the connector,    *)
(* and Counter and MACChainValue stay as they are.                         *)
(***************************************************************************)
C4_UnauthenticatedStep ==
    SecurityLevel = SecurityLevelUnauthenticated =>
        /\ \A t \in Callers : pc[t] \notin SendSteps /\ pc'[t] \notin SendSteps
        /\ result'.op \in SendOps =>
              /\ result'.err = "the session is not authenticated"
              /\ result'.resp = <<>>
              /\ sent' = sent
              /\ Counter' = Counter
              /\ MACChainValue' = MACChainValue
C4_UnauthenticatedRejects == [][C4_UnauthenticatedStep]_vars

\* Close is rejected on a channel whose Authenticate has failed
C4_Witness ==
    /\ SecurityLevel = SecurityLevelUnauthenticated
    /\ Len(sent) > 0
    /\ result.op = "Close"
    /\ result.err = "the session is not authenticated"

(***************************************************************************)
(* C5.  A call that has received a SessionMessage response goes on to      *)
(* increment Counter and decrypt exactly when the received MAC equals the  *)
(* first 8 bytes of the CMAC, under S_RMAC, of the chain value set by its  *)
(* request followed by the received response; otherwise it returns the     *)
(* invalid-response-MAC error and no response.  A response is returned     *)
(* without error only by a call whose received MAC was equal.              *)
(***************************************************************************)
C5_VerifyStep ==
    \A t \in Callers :
        /\ (pc[t] = "sendVerify" /\ pc'[t] # "sendVerify"
            /\ local[t].resp.type = "SessionMessageResponse") =>
              /\ local[t].outer.MAC = Truncate(MACChainValue, MACLength)
              /\ IF local[t].resp.B = ResponseCMAC8(local[t].resp)
                 THEN pc'[t] = "sendIncr" /\ result' = NoResult
                 ELSE result' = Result(t, local[t].op, <<>>, "invalid response MAC")
        /\ (result'.by = t /\ result'.op \in SendOps /\ result'.err = "nil") =>
              /\ local[t].resp.type = "SessionMessageResponse"
              /\ local[t].resp.B = ResponseCMAC8(local[t].resp)
C5_ResponseMACVerified == [][C5_VerifyStep]_vars

\* a response with altered data or MAC has been refused
C5_Witness ==
    /\ result.op = "SendEncryptedCommand"
    /\ result.err = "invalid response MAC"
    /\ result.resp = <<>>


(***************************************************************************)
(* C6.  Authenticate returns success only from a call that received a      *)
(* CreateSession response whose card cryptogram equals the one derived     *)
(* from the auth key and the two challenges, and whose last two requests   *)
(* were CREATE_SESSION and then AUTHENTICATE_SESSION; when it returns, the *)
(* channel is Authenticated with Counter 1 and the session id and device   *)
(* challenge of that response.  SecurityLevel changes in no other step.    *)
(***************************************************************************)
C6_AuthenticateStep ==
    /\ (result'.op = "Authenticate" /\ result'.err = "nil") =>
          LET r == local[result'.by].resp
          IN  /\ r.type = "CreateSessionResponse"
              /\ r.B = CardCryptogram(HostChallenge, r.A)
              /\ Len(sent) >= 2
              /\ sent[Len(sent) - 1].CommandType = CommandTypeCreateSession
              /\ sent[Len(sent)].CommandType = CommandTypeAuthenticateSession
              /\ sent' = sent
              /\ SecurityLevel' = SecurityLevelAuthenticated
              /\ Counter' = 1
              /\ ID' = r.SessionID
              /\ DeviceChallenge' = r.A
    /\ (SecurityLevel' # SecurityLevel) =>
          /\ SecurityLevel' = SecurityLevelAuthenticated
          /\ result'.op = "Authenticate"
          /\ result'.err = "nil"
C6_AuthenticateSuccess == [][C6_AuthenticateStep]_vars

\* Authenticate has just returned success on a new channel
C6_Witness ==
    /\ result.op = "Authenticate"
    /\ result.err = "nil"
    /\ SecurityLevel = SecurityLevelAuthenticated
    /\ Counter = 1
    /\ ID \in SessionIDs

(***************************************************************************)
(* C7 as stated.  When Authenticate returns the wrong-cryptogram error,    *)
(* ID, DeviceChallenge, the key chain, MACChainValue, Counter and          *)
(* SecurityLevel are what they were when the call took the lock.           *)
(***************************************************************************)
CryptogramError == "authentication failed: device sent wrong cryptogram"
C7_ChannelUnchangedStep ==
    result'.err = CryptogramError =>
        <<ID, Counter, SecurityLevel, HostChallenge, DeviceChallenge, keyChain, MACChainValue>>'
            = local[result'.by].before
C7_ChannelUnchanged == [][C7_ChannelUnchangedStep]_vars

(***************************************************************************)
(* C7 amended.  When Authenticate returns the wrong-cryptogram error, the  *)
(* last request of the call was CREATE_SESSION (AUTHENTICATE_SESSION was   *)
(* not sent), MACChainValue, Counter and SecurityLevel are what they were  *)
(* when the call took the lock, and ID, DeviceChallenge and the key chain  *)
(* hold the session id and card challenge of the refused response and the  *)
(* session keys derived from it.                                           *)
(***************************************************************************)
C7_AfterMismatchStep ==
    result'.err = CryptogramError =>
        LET t == result'.by
            r == local[t].resp
        IN  /\ result'.op = "Authenticate"
            /\ r.B # CardCryptogram(HostChallenge, r.A)
            /\ sent' = sent
            /\ LastSent.CommandType = CommandTypeCreateSession
            /\ Counter' = local[t].before[2]
            /\ SecurityLevel' = local[t].before[3]
            /\ MACChainValue' = local[t].before[7]
            /\ ID' = r.SessionID
            /\ DeviceChallenge' = r.A
            /\ keyChain' = SessionKeys(HostChallenge, r.A)
C7_AfterMismatch == [][C7_AfterMismatchStep]_vars

\* Authenticate has returned the wrong-cryptogram error; the channel holds the
\* session id of the refused response
C7_Witness ==
    /\ result.op = "Authenticate"
    /\ result.err = CryptogramError
    /\ SecurityLevel = SecurityLevelUnauthenticated
    /\ ID \in SessionIDs

(***************************************************************************)
(* C8.  A call of Authenticate on a channel that is not Unauthenticated    *)
(* is rejected, at most one call of Authenticate succeeds, and once the    *)
(* channel is Authenticated no step of an Authenticate changes ID, the     *)
(* key chain, MACChainValue or Counter; Counter never decreases.           *)
(***************************************************************************)
C8_AuthenticateOnceStep ==
    /\ "authenticated again" \notin events'
    /\ Counter' >= Counter
    /\ SecurityLevel = SecurityLevelAuthenticated =>
          /\ ID' = ID
          /\ keyChain' = keyChain
          /\ \A t \in Callers :
                (local[t].op = "Authenticate" /\ channelLock = t) =>
                    /\ MACChainValue' = MACChainValue
                    /\ Counter' = Counter
C8_AuthenticateOnce == [][C8_AuthenticateOnceStep]_vars

(***************************************************************************)
(* C9.  Once a Close has completed on the channel, or a response has       *)
(* failed MAC verification or decryption, every call of                    *)
(* SendEncryptedCommand or Close that starts afterwards is rejected at     *)
(* its entry check.                                                        *)
(***************************************************************************)
TerminalEvents == {"closed", "response MAC failed", "decrypt failed"}
C9_TerminalStep ==
    (events \cap TerminalEvents # {}) =>
        \A t \in Callers : (pc[t] = "idle") => (pc'[t] \notin SendSteps)
C9_TerminalState == [][C9_TerminalStep]_vars

(***************************************************************************)
(* C10.  At most one caller is between taking the channel lock and its     *)
(* return, and every SESSION_MESSAGE handed to the connector was sent      *)
(* under a value of Counter no other SESSION_MESSAGE was sent under.       *)
(***************************************************************************)
\* the callers inside the locked part of a call
InExchange == {t \in Callers : pc[t] \notin {"idle", "authLock", "sendLock"}}
ExchangesNeverOverlap ==
    /\ Cardinality(InExchange) <= 1
    /\ \A t \in InExchange : channelLock = t
C10_OneExchangePerCounter ==
    /\ ExchangesNeverOverlap
    /\ \A i, j \in 1..Len(sent) :
          (/\ i < j
           /\ sent[i].CommandType = CommandTypeSessionMessage
           /\ sent[j].CommandType = CommandTypeSessionMessage)
          => sent[j].Counter > sent[i].Counter


(***************************************************************************)
(* The pooled SessionManager (manager.go).                                 *)
(*                                                                         *)
(* A SecureChannel of the pool is kept as its Counter, its SecurityLevel   *)
(* and whether a CLOSE_SESSION has been answered on it; the channels are   *)
(* named by their position in channels.                                    *)
(***************************************************************************)
\* bounds: the SecureChannel objects a manager creates, the passes of the
\* housekeeper goroutine, the calls clients make
MaxChannels == 3
MaxPasses == 1
MaxClientCalls == 2

\* if poolSize > 16; make(chan bool, 1); make(chan *securechannel.SecureChannel, 20)
SessionLimit == 16
ConnectedCap == 1
RecycleQueueCap == 20
\* securechannel.MaxMessagesPerSession*0.9
RecycleAbove == (MaxMessagesPerSession * 9) \div 10

\* the pool sizes NewSessionManager is called with
PoolSizes == {1, 2, SessionLimit + 1}
\* the commands clients send on a channel between two steps of the manager
Bursts == {RecycleAbove}

\* a channel whose Authenticate returned nil, and one whose Authenticate failed
AuthenticatedChannel ==
    [Counter |-> 1, SecurityLevel |-> SecurityLevelAuthenticated, closed |-> FALSE]
FailedChannel ==
    [Counter |-> 0, SecurityLevel |-> SecurityLevelUnauthenticated, closed |-> FALSE]

\* SendEncryptedCommand on channel c can get past its entry checks
CanSend(c) ==
    /\ channels[c].SecurityLevel = SecurityLevelAuthenticated
    /\ channels[c].Counter < MaxMessagesPerSession

\* the results of SendEncryptedCommand(c, Echo) as household sees them: the echo,
\* other data echoed, an error, or a response of another type without error
EchoResults(c) ==
    IF CanSend(c) /\ ~channels[c].closed
    THEN {"echo", "wrong echo", "error", "other response"}
    ELSE {"error"}

\* the channels after a SendEncryptedCommand on c that the device answered
Answered(c) == [channels EXCEPT ![c].Counter = @ + 1]

\* the channels after channel.Close() on c; ok: the device answered CLOSE_SESSION
Closed(c, ok) ==
    IF CanSend(c) /\ ~channels[c].closed /\ ok
    THEN [channels EXCEPT ![c].Counter = @ + 1, ![c].closed = TRUE]
    ELSE channels

\* what a step of the manager returned to the caller of NewSessionManager or
\* GetSession; NoOp when the step was no such return
Did(op, err, arg) == [op |-> op, err |-> err, arg |-> arg]
NoOp == Did("none", "none", 0)

\* retired: the sessions the pass found above RecycleAbove (history); probe: the
\* result of the last Echo probe of the pass
NoPass == [by |-> NoCaller, at |-> "idle", i |-> 0, n |-> 0, new |-> 0, retired |-> {},
           probe |-> "none"]
NoRecycle == [channel |-> 0, new |-> 0]
NoCount == [received |-> 0, passes |-> 0, calls |-> 0]

\* the fields of the single-session manager
singleVars == <<session, swapping, keepAlive, sw>>

\* the securechannel package and Serialize are used through the abstraction above
ChannelUnused ==
    /\ NewSecureChannel
    /\ channelLock = NoCaller
    /\ pc = [t \in Callers |-> "idle"]
    /\ local = [t \in Callers |-> NoLocal]
    /\ result = NoResult
    /\ ncalls = 0
    /\ sent = <<>>
    /\ events = {}

\* the program before it calls NewSessionManager
InitPool ==
    /\ ChannelUnused
    /\ NoWire
    /\ sessions = <<>>
    /\ lock = NoCaller
    /\ poolSize = 0
    /\ destroyed = FALSE
    /\ Connected = 0
    /\ recycleQueue = <<>>
    /\ session = 0
    /\ swapping = FALSE
    /\ keepAlive = "none"
    /\ channels = <<>>
    /\ gpc = [main |-> "start", housekeeper |-> "off", recycler |-> "off"]
    /\ hk = NoPass
    /\ rc = NoRecycle
    /\ sw = <<>>
    /\ mlast = NoOp
    /\ count = NoCount
    /\ crashed = FALSE

\* a step of the manager: the program has not panicked; the step leaves the
\* variables of the other components alone
ManagerStep(op, err, arg) ==
    /\ ~crashed
    /\ mlast' = Did(op, err, arg)
    /\ UNCHANGED <<channelVars, wireVars>>

\* the check with the limit itself left out of it
PoolSizeExceedsLimitOffByOne(n) == n > SessionLimit + 1

\* poolSize > 16
PoolSizeExceedsLimit(n) == n > SessionLimit

\* NewSessionManager up to the first household()
NewSessionManager ==
    /\ gpc.main = "start"
    /\ \E n \in PoolSizes :
          IF PoolSizeExceedsLimit(n)
          THEN /\ ManagerStep("NewSessionManager", "pool size exceeds session limit", n)
               /\ gpc' = [gpc EXCEPT !.main = "returned"]
               /\ UNCHANGED <<poolSize, hk>>
          ELSE /\ ManagerStep("none", "none", 0)
               /\ poolSize' = n
               /\ gpc' = [gpc EXCEPT !.main = "household"]
               /\ hk' = [NoPass EXCEPT !.by = "main", !.at = "lock"]
    /\ UNCHANGED <<sessions, lock, destroyed, Connected, recycleQueue, channels, rc, count,
                   crashed, singleVars>>


(***************************************************************************)
(* household: the probes under the lock, then the creation of the missing  *)
(* sessions.                                                               *)
(***************************************************************************)
\* the housekeeper goroutine wakes up and calls household()
HkBegin ==
    /\ gpc.housekeeper = "sleep"
    /\ count.passes < MaxPasses
    /\ ManagerStep("none", "none", 0)
    /\ gpc' = [gpc EXCEPT !.housekeeper = "household"]
    /\ hk' = [NoPass EXCEPT !.by = "housekeeper", !.at = "lock"]
    /\ count' = [count EXCEPT !.passes = @ + 1]
    /\ UNCHANGED <<sessions, lock, poolSize, destroyed, Connected, recycleQueue, channels, rc,
                   crashed, singleVars>>

\* s.lock.Lock() and the start of the range over s.sessions
HkLock ==
    /\ hk.at = "lock"
    /\ lock = NoCaller
    /\ ManagerStep("none", "none", 0)
    /\ lock' = hk.by
    /\ hk' = [hk EXCEPT !.at = "probe", !.i = 1]
    /\ UNCHANGED <<sessions, poolSize, destroyed, Connected, recycleQueue, channels, gpc, rc,
                   count, crashed, singleVars>>

\* session.Counter > securechannel.MaxMessagesPerSession*0.9 || err != nil
Expired(counter, err) == counter > RecycleAbove \/ err

\* the Echo probe of the i-th session and the checks of its result; a response of
\* another type makes parsedResp.Data dereference nil
HkProbe ==
    /\ hk.at = "probe"
    /\ hk.i <= Len(sessions)
    /\ LET c == sessions[hk.i]
       IN  \E r \in EchoResults(c) :
              /\ ManagerStep("none", "none", 0)
              /\ channels' = IF r = "error" THEN channels ELSE Answered(c)
              /\ crashed' = (r = "other response")
              /\ hk' = IF Expired(channels'[c].Counter, r \in {"error", "wrong echo"})
                       THEN [hk EXCEPT !.at = "enqueue", !.probe = r,
                                       !.retired = IF channels'[c].Counter > RecycleAbove
                                                   THEN @ \cup {c} ELSE @]
                       ELSE [hk EXCEPT !.i = @ + 1, !.probe = r]
    /\ UNCHANGED <<sessions, lock, poolSize, destroyed, Connected, recycleQueue, gpc, rc,
                   count, singleVars>>

\* s.recycleQueue <- session: blocks while the queue is full
HkEnqueue ==
    /\ hk.at = "enqueue"
    /\ Len(recycleQueue) < RecycleQueueCap
    /\ ManagerStep("none", "none", 0)
    /\ recycleQueue' = Append(recycleQueue, sessions[hk.i])
    /\ hk' = [hk EXCEPT !.at = "probe", !.i = @ + 1]
    /\ UNCHANGED <<sessions, lock, poolSize, destroyed, Connected, channels, gpc, rc,
                   count, crashed, singleVars>>

\* the range is over: the deferred s.lock.Unlock()
HkUnlock ==
    /\ hk.at = "probe"
    /\ hk.i > Len(sessions)
    /\ ManagerStep("none", "none", 0)
    /\ lock' = NoCaller
    /\ hk' = [hk EXCEPT !.at = "deficit", !.i = 0, !.n = 0]
    /\ UNCHANGED <<sessions, poolSize, destroyed, Connected, recycleQueue, channels, gpc, rc,
                   count, crashed, singleVars>>

\* i < int(s.poolSize)-len(s.sessions), read without the lock
SessionsMissing(i) == i < poolSize - Len(sessions)

\* createSession up to the return of Authenticate: NewSecureChannel fails (no
\* channel), Authenticate fails, or Authenticate returns nil
CreateResults == IF Len(channels) < MaxChannels THEN {"failed", "nil"} ELSE {"no channel"}
Created(r) ==
    CASE r = "nil" -> Append(channels, AuthenticatedChannel)
      [] r = "failed" -> Append(channels, FailedChannel)
      [] OTHER -> channels

\* the error of Authenticate is dropped
AuthenticateFailedIgnored(r) == r = "no channel"

\* err != nil after newSession.Authenticate()
AuthenticateFailed(r) == r # "nil"

\* createSession from the lock on: the append and the notification
\* select { case s.Connected <- true: default: }
AppendSession(c) ==
    /\ lock = NoCaller
    /\ sessions' = Append(sessions, c)
    /\ Connected' = IF Connected < ConnectedCap THEN Connected + 1 ELSE Connected

\* one evaluation of the loop condition.  When it is true createSession is called
\* and runs up to the return of Authenticate (which touches nothing shared).  When
\* it is false household returns: NewSessionManager starts the two goroutines and
\* returns the manager, the housekeeper goes to sleep
HkDeficit ==
    /\ hk.at = "deficit"
    /\ IF SessionsMissing(hk.n)
       THEN /\ ManagerStep("none", "none", 0)
            /\ \E r \in CreateResults :
                  /\ channels' = Created(r)
                  /\ hk' = IF AuthenticateFailed(r)
                           THEN [hk EXCEPT !.n = @ + 1]
                           ELSE [hk EXCEPT !.at = "append", !.new = Len(channels')]
            /\ UNCHANGED gpc
       ELSE /\ hk' = NoPass
            /\ IF hk.by = "main"
               THEN /\ ManagerStep("NewSessionManager", "nil", poolSize)
                    /\ gpc' = [main |-> "returned", housekeeper |-> "sleep", recycler |-> "recv"]
               ELSE /\ ManagerStep("none", "none", 0)
                    /\ gpc' = [gpc EXCEPT !.housekeeper = "sleep"]
            /\ UNCHANGED channels
    /\ UNCHANGED <<sessions, lock, poolSize, destroyed, Connected, recycleQueue, rc,
                   count, crashed, singleVars>>

HkAppend ==
    /\ hk.at = "append"
    /\ ManagerStep("none", "none", 0)
    /\ AppendSession(hk.new)
    /\ hk' = [hk EXCEPT !.at = "deficit", !.n = @ + 1, !.new = 0]
    /\ UNCHANGED <<lock, poolSize, destroyed, recycleQueue, channels, gpc, rc,
                   count, crashed, singleVars>>


(***************************************************************************)
(* The recycler goroutine.                                                 *)
(***************************************************************************)
\* for channel := range manager.recycleQueue
RcRecv ==
    /\ gpc.recycler = "recv"
    /\ recycleQueue # <<>>
    /\ ManagerStep("none", "none", 0)
    /\ rc' = [rc EXCEPT !.channel = Head(recycleQueue)]
    /\ recycleQueue' = Tail(recycleQueue)
    /\ gpc' = [gpc EXCEPT !.recycler = "remove"]
    /\ UNCHANGED <<sessions, lock, poolSize, destroyed, Connected, channels, hk,
                   count, crashed, singleVars>>

\* sessionList.pos: the first position of value in slice, -1 when it has none
pos(slice, value) ==
    IF \E p \in 1..Len(slice) : slice[p] = value
    THEN (CHOOSE p \in 1..Len(slice) :
             /\ slice[p] = value
             /\ \A q \in 1..(p - 1) : slice[q] # value) - 1
    ELSE -1

\* nothing is removed
RemoveNothing(slice, p) == slice

\* the slice with the last element moved to index p (from 0) and the end cut off
RemoveAt(slice, p) ==
    [q \in 1..(Len(slice) - 1) |-> IF q = p + 1 THEN slice[Len(slice)] ELSE slice[q]]

\* the removal under the lock; indexing with -1 panics
RcRemove ==
    /\ gpc.recycler = "remove"
    /\ lock = NoCaller
    /\ LET p == pos(sessions, rc.channel)
       IN  IF p < 0
           THEN /\ ManagerStep("none", "none", 0)
                /\ crashed' = TRUE
                /\ UNCHANGED <<sessions, gpc>>
           ELSE /\ ManagerStep("none", "none", 0)
                /\ sessions' = RemoveAt(sessions, p)
                /\ gpc' = [gpc EXCEPT !.recycler = "close"]
                /\ UNCHANGED crashed
    /\ UNCHANGED <<lock, poolSize, destroyed, Connected, recycleQueue, channels, hk, rc,
                   count, singleVars>>

\* channel.Close() on the removed channel (its result is dropped; the device
\* answers when the channel can send), then manager.createSession() up to the
\* return of Authenticate
RcReplace ==
    /\ gpc.recycler = "close"
    /\ ManagerStep("none", "none", 0)
    /\ LET closed == Closed(rc.channel, TRUE)
       IN  \E r \in CreateResults :
              /\ channels' = IF r = "no channel" THEN closed
                              ELSE Append(closed, IF r = "nil" THEN AuthenticatedChannel
                                                  ELSE FailedChannel)
              /\ IF AuthenticateFailed(r)
                 THEN /\ gpc' = [gpc EXCEPT !.recycler = "recv"]
                      /\ rc' = NoRecycle
                 ELSE /\ gpc' = [gpc EXCEPT !.recycler = "append"]
                      /\ rc' = [rc EXCEPT !.new = Len(channels')]
    /\ UNCHANGED <<sessions, lock, poolSize, destroyed, Connected, recycleQueue, hk,
                   count, crashed, singleVars>>

RcAppend ==
    /\ gpc.recycler = "append"
    /\ ManagerStep("none", "none", 0)
    /\ AppendSession(rc.new)
    /\ gpc' = [gpc EXCEPT !.recycler = "recv"]
    /\ rc' = NoRecycle
    /\ UNCHANGED <<lock, poolSize, destroyed, recycleQueue, channels, hk,
                   count, crashed, singleVars>>

(***************************************************************************)
(* The clients of the manager NewSessionManager has returned.              *)
(***************************************************************************)
\* NewSessionManager has returned a manager (its goroutines are started)
ManagerReturned == gpc.main = "returned" /\ gpc.recycler # "off"

\* a client makes one more call on the manager
ClientCall ==
    /\ ManagerReturned
    /\ count.calls < MaxClientCalls

\* the destroyed flag is not looked at
ManagerDestroyedUnchecked == FALSE

\* s.destroyed; len(s.sessions) == 0
ManagerDestroyed == destroyed
PoolEmpty == Len(sessions) = 0

\* GetSession: under the lock, an error or s.sessions[rand.Intn(len(s.sessions))]
GetSession ==
    /\ ClientCall
    /\ lock = NoCaller
    /\ IF ManagerDestroyed
       THEN ManagerStep("GetSession", "sessionmanager has already been destroyed", 0)
       ELSE IF PoolEmpty
            THEN ManagerStep("GetSession", "no sessions available", 0)
            ELSE \E p \in 1..Len(sessions) : ManagerStep("GetSession", "nil", sessions[p])
    /\ count' = [count EXCEPT !.calls = @ + 1]
    /\ UNCHANGED <<sessions, lock, poolSize, destroyed, Connected, recycleQueue, channels,
                   gpc, hk, rc, crashed, singleVars>>

\* the channels after Close() on every session from the p-th on; ok tells
\* whether the device answers the CLOSE_SESSION commands
RECURSIVE CloseFrom(_, _, _)
CloseFrom(chs, p, ok) ==
    IF p > Len(sessions)
    THEN chs
    ELSE LET c == sessions[p]
             sendable == /\ chs[c].SecurityLevel = SecurityLevelAuthenticated
                         /\ chs[c].Counter < MaxMessagesPerSession
                         /\ ~chs[c].closed
         IN  CloseFrom(IF sendable /\ ok
                       THEN [chs EXCEPT ![c].Counter = @ + 1, ![c].closed = TRUE]
                       ELSE chs,
                       p + 1, ok)

\* Destroy: under the lock, Close on every session, then destroyed = true
Destroy ==
    /\ ClientCall
    /\ lock = NoCaller
    /\ ManagerStep("none", "none", 0)
    /\ \E ok \in BOOLEAN : channels' = CloseFrom(channels, 1, ok)
    /\ destroyed' = TRUE
    /\ count' = [count EXCEPT !.calls = @ + 1]
    /\ UNCHANGED <<sessions, lock, poolSize, Connected, recycleQueue, gpc, hk, rc,
                   crashed, singleVars>>

\* <-sm.Connected
ReceiveConnected ==
    /\ ClientCall
    /\ Connected > 0
    /\ ManagerStep("none", "none", 0)
    /\ Connected' = Connected - 1
    /\ count' = [count EXCEPT !.received = @ + 1, !.calls = @ + 1]
    /\ UNCHANGED <<sessions, lock, poolSize, destroyed, recycleQueue, channels, gpc, hk, rc,
                   crashed, singleVars>>

\* clients send k commands, one after the other, on a session GetSession gave
\* them, and the device answers each
ClientSends ==
    /\ ClientCall
    /\ \E p \in 1..Len(sessions), k \in Bursts :
          /\ ~channels[sessions[p]].closed
          /\ channels[sessions[p]].Counter + k <= MaxMessagesPerSession
          /\ ManagerStep("none", "none", 0)
          /\ channels' = [channels EXCEPT ![sessions[p]].Counter = @ + k]
    /\ count' = [count EXCEPT !.calls = @ + 1]
    /\ UNCHANGED <<sessions, lock, poolSize, destroyed, Connected, recycleQueue, gpc, hk, rc,
                   crashed, singleVars>>

NextPool ==
    \/ NewSessionManager
    \/ HkBegin
    \/ HkLock
    \/ HkProbe
    \/ HkEnqueue
    \/ HkUnlock
    \/ HkDeficit
    \/ HkAppend
    \/ RcRecv
    \/ RcRemove
    \/ RcReplace
    \/ RcAppend
    \/ GetSession
    \/ Destroy
    \/ ReceiveConnected
    \/ ClientSends
SpecPool == InitPool /\ [][NextPool]_vars


(***************************************************************************)
(* The single-session SessionManager: one active session, replaced by      *)
(* swapSession when checkSessionHealth finds it nearly depleted or when a  *)
(* keep-alive ping fails.  Every method holds s.lock from its first to its *)
(* last statement and is one step; swapSession takes the lock only for the *)
(* replacement, and writes s.swapping outside it.                          *)
(*   session    the index in channels of s.session, 0 for nil              *)
(*   keepAlive  the timer: "armed", "fired" (a tick waits in keepAlive.C), *)
(*              "expired" (the tick was received), "stopped"               *)
(*   sw         the calls of swapSession, in the order they were started   *)
(*   gpc        main: NewSessionManager; housekeeper: pingRoutine          *)
(***************************************************************************)
\* the results of NewSecureChannel followed by Authenticate
SwapResults == {"nil", "failed"}

\* the results of session.SendEncryptedCommand(c) as the manager's caller sees them
SendResults(c) ==
    IF CanSend(c) /\ ~channels[c].closed THEN {"nil", "error"} ELSE {"error"}

\* the calls a client makes in one step: one, or as many as bring the Counter
\* to RecycleAbove with the last of them
SendBursts(c) ==
    {1} \cup {k \in {RecycleAbove - channels[c].Counter} : k > 0}

\* a call of swapSession (by: "go" from checkSessionHealth, "ping" from
\* pingRoutine; old: s.session when the call was made), and a call that returned
SwapCall(by, old) == [by |-> by, at |-> "begin", old |-> old, failed |-> FALSE]
SwapDone == [by |-> "go", at |-> "done", old |-> 0, failed |-> FALSE]

\* keepAlive.Reset and keepAlive.Stop: neither takes a waiting tick out of keepAlive.C
Reset(timer) == IF timer = "fired" THEN "fired" ELSE "armed"
Stop(timer) == IF timer = "fired" THEN "fired" ELSE "stopped"

\* the threshold with the boundary left out of it
SessionUnhealthyAbove(counter) == counter > RecycleAbove

\* s.session.Counter >= securechannel.MaxMessagesPerSession*0.9
SessionUnhealthy(counter) == counter >= RecycleAbove

\* checkSessionHealth on the channels chs: the calls after it
checkSessionHealth(chs, calls) ==
    IF SessionUnhealthy(chs[session].Counter) /\ ~swapping
    THEN Append(calls, SwapCall("go", session))
    ELSE calls

InitSingle ==
    /\ ChannelUnused
    /\ NoWire
    /\ sessions = <<>>
    /\ lock = NoCaller
    /\ poolSize = 0
    /\ destroyed = FALSE
    /\ Connected = 0
    /\ recycleQueue = <<>>
    /\ session = 0
    /\ swapping = FALSE
    /\ keepAlive = "none"
    /\ channels = <<>>
    /\ gpc = [main |-> "start", housekeeper |-> "off", recycler |-> "off"]
    /\ hk = NoPass
    /\ rc = NoRecycle
    /\ sw = <<>>
    /\ mlast = NoOp
    /\ count = NoCount
    /\ crashed = FALSE

\* the fields of the pooled manager
pooledVars == <<sessions, lock, poolSize, Connected, recycleQueue, hk, rc>>

\* NewSessionManager: swapSession, then the timer and go pingRoutine
SingleNewSessionManager ==
    /\ gpc.main = "start"
    /\ \E r \in SwapResults :
          /\ channels' = IF r = "nil" THEN Append(channels, AuthenticatedChannel) ELSE channels
          /\ IF r = "nil"
             THEN /\ ManagerStep("NewSessionManager", "nil", 0)
                  /\ session' = Len(channels')
                  /\ keepAlive' = "armed"
                  /\ gpc' = [gpc EXCEPT !.main = "returned", !.housekeeper = "recv"]
             ELSE /\ ManagerStep("NewSessionManager", "swap failed", 0)
                  /\ gpc' = [gpc EXCEPT !.main = "returned"]
                  /\ UNCHANGED <<session, keepAlive>>
    /\ UNCHANGED <<pooledVars, destroyed, swapping, sw, count, crashed>>

\* NewSessionManager returned a manager
SingleReturned == gpc.main = "returned" /\ gpc.housekeeper # "off"

\* the calls of SendEncryptedCommand, by clients and by pingRoutine, are bounded
SendsLeft == count.calls + count.passes < MaxClientCalls

\* SendEncryptedCommand of the manager, called by a client
SingleSendEncryptedCommand ==
    /\ SingleReturned
    /\ SendsLeft
    /\ IF destroyed
       THEN /\ ManagerStep("none", "none", 0)
            /\ UNCHANGED <<channels, keepAlive>>
       ELSE \E r \in SendResults(session), k \in SendBursts(session) :
               /\ r = "nil" => channels[session].Counter + k <= MaxMessagesPerSession
               /\ ManagerStep("none", "none", 0)
               /\ keepAlive' = Reset(keepAlive)
               /\ channels' = IF r = "nil"
                              THEN [channels EXCEPT ![session].Counter = @ + k]
                              ELSE channels
    /\ sw' = checkSessionHealth(channels', sw)
    /\ count' = [count EXCEPT !.calls = @ + 1]
    /\ UNCHANGED <<pooledVars, destroyed, session, swapping, gpc, crashed>>

\* Destroy: the timer stopped, Close on the session, destroyed = true
SingleDestroy ==
    /\ SingleReturned
    /\ ~destroyed
    /\ ManagerStep("none", "none", 0)
    /\ keepAlive' = Stop(keepAlive)
    /\ \E ok \in BOOLEAN : channels' = Closed(session, ok)
    /\ destroyed' = TRUE
    /\ UNCHANGED <<pooledVars, session, swapping, sw, gpc, count, crashed>>

\* pingInterval has passed since the timer was armed
TimerFires ==
    /\ keepAlive = "armed"
    /\ SendsLeft
    /\ ManagerStep("none", "none", 0)
    /\ keepAlive' = "fired"
    /\ count' = [count EXCEPT !.passes = @ + 1]
    /\ UNCHANGED <<pooledVars, destroyed, session, swapping, sw, channels, gpc, crashed>>

\* pingRoutine: a tick is received and the Echo sent with SendEncryptedCommand;
\* a response of another type is dereferenced as an EchoResponse (panic)
PingSend ==
    /\ gpc.housekeeper = "recv"
    /\ keepAlive = "fired"
    /\ ManagerStep("none", "none", 0)
    /\ \E r \in (IF destroyed THEN {"error"} ELSE EchoResults(session)) :
          /\ keepAlive' = IF destroyed THEN "expired" ELSE "armed"
          /\ channels' = IF r = "error" THEN channels ELSE Answered(session)
          /\ crashed' = (r = "other response")
          /\ IF r = "error"
             THEN /\ sw' = Append(checkSessionHealth(channels', sw), SwapCall("ping", session))
                  /\ gpc' = [gpc EXCEPT !.housekeeper = "swap"]
             ELSE /\ sw' = checkSessionHealth(channels', sw)
                  /\ gpc' = [gpc EXCEPT !.housekeeper = "reset"]
    /\ UNCHANGED <<pooledVars, destroyed, session, swapping, count>>

\* s.keepAlive.Reset(pingInterval) at the end of the loop body
PingReset ==
    /\ gpc.housekeeper = "reset"
    /\ ManagerStep("none", "none", 0)
    /\ keepAlive' = Reset(keepAlive)
    /\ gpc' = [gpc EXCEPT !.housekeeper = "recv"]
    /\ UNCHANGED <<pooledVars, destroyed, session, swapping, sw, channels, count, crashed>>

\* swapSession, call i: s.swapping = true
SwBegin(i) ==
    /\ i <= Len(sw)
    /\ sw[i].at = "begin"
    /\ ManagerStep("none", "none", 0)
    /\ swapping' = TRUE
    /\ sw' = [sw EXCEPT ![i].at = "create"]
    /\ UNCHANGED <<pooledVars, destroyed, session, keepAlive, channels, gpc, count, crashed>>

\* the error of NewSecureChannel or Authenticate is dropped and the channel that
\* failed installed
SwCreateUnchecked(i) ==
    /\ i <= Len(sw)
    /\ sw[i].at = "create"
    /\ ManagerStep("none", "none", 0)
    /\ \E r \in SwapResults :
          /\ channels' = Append(Closed(session, TRUE),
                                IF r = "nil" THEN AuthenticatedChannel ELSE FailedChannel)
          /\ session' = Len(channels')
          /\ sw' = [sw EXCEPT ![i].at = "end", ![i].failed = (r # "nil")]
    /\ UNCHANGED <<pooledVars, destroyed, swapping, keepAlive, gpc, count, crashed>>

\* NewSecureChannel and Authenticate, where an error returns (the channel that
\* failed is dropped); then, under the
\* lock, go s.session.Close() and s.session = newSession; the device answers
\* the CLOSE_SESSION of that goroutine when the old session can still send it
SwCreate(i) ==
    /\ i <= Len(sw)
    /\ sw[i].at = "create"
    /\ ManagerStep("none", "none", 0)
    /\ \E r \in SwapResults :
          IF r = "nil"
          THEN /\ channels' = Append(Closed(session, TRUE), AuthenticatedChannel)
               /\ session' = Len(channels')
               /\ sw' = [sw EXCEPT ![i].at = "end"]
          ELSE /\ sw' = [sw EXCEPT ![i].at = "end", ![i].failed = TRUE]
               /\ UNCHANGED <<channels, session>>
    /\ UNCHANGED <<pooledVars, destroyed, swapping, keepAlive, gpc, count, crashed>>

\* the deferred s.swapping = false; pingRoutine goes on after its own call
SwEnd(i) ==
    /\ i <= Len(sw)
    /\ sw[i].at = "end"
    /\ ManagerStep("none", "none", 0)
    /\ swapping' = FALSE
    /\ sw' = [sw EXCEPT ![i] = SwapDone]
    /\ gpc' = IF sw[i].by = "ping" THEN [gpc EXCEPT !.housekeeper = "reset"] ELSE gpc
    /\ UNCHANGED <<pooledVars, destroyed, session, keepAlive, channels, count, crashed>>

\* a step of some call of swapSession
SwapStep == \E i \in 1..Len(sw) : SwBegin(i) \/ SwCreate(i) \/ SwEnd(i)

NextSingle ==
    \/ SingleNewSessionManager
    \/ SingleSendEncryptedCommand
    \/ SingleDestroy
    \/ TimerFires
    \/ PingSend
    \/ PingReset
    \/ \E i \in 1..Len(sw) : SwBegin(i)
    \/ \E i \in 1..Len(sw) : SwCreate(i)
    \/ \E i \in 1..Len(sw) : SwEnd(i)

\* fair scheduling: while a call of swapSession can take a step, one of them
\* does (each call of SendEncryptedCommand starts at most two, of three steps each)
SpecSingle ==
    /\ InitSingle
    /\ [][NextSingle]_vars
    /\ WF_vars(SwapStep)

(***************************************************************************)
(* CommandMessage.Serialize.  A program constructs a command and calls     *)
(* Serialize on it; wire is the buffer Serialize returned, one element per *)
(* write to the buffer, each with its content and its length in bytes.     *)
(***************************************************************************)
\* the commands handed to Serialize: types, session ids (NoSessionID for nil),
\* lengths of Data, and a nil MAC or one of MACLength bytes
WireCommandTypes == {CommandTypeEcho, CommandTypeCreateSession, CommandTypeSessionMessage}
WireSessionIDs == {NoSessionID, 0, 1}
WireDataLengths == {0, 1, 4, BlockSize, 2048, Uint16 - 10, Uint16 - 9, Uint16 - 8,
                    Uint16 - 2, Uint16 - 1, Uint16, Uint16 + 1}
WireMACs == {NoBytes, Bytes(<<"mac">>, MACLength)}
WireCommands ==
    {[CommandType |-> t, SessionID |-> sid, Data |-> Bytes(<<"data", n>>, n), MAC |-> m] :
        t \in WireCommandTypes, sid \in WireSessionIDs, n \in WireDataLengths, m \in WireMACs}

\* BodyLength: len(Data), + len(MAC) if MAC != nil, + 1 if SessionID != nil, as uint16
BodyLength(c) ==
    (c.Data.len + c.MAC.len + (IF c.SessionID # NoSessionID THEN 1 ELSE 0)) % Uint16

\* binary.Write(buffer, binary.BigEndian, v) of a uint16
BigEndian16(v) == Bytes(<<v \div Uint8, v % Uint8>>, 2)

\* Serialize: the writes to the buffer, in order
Serialize(c) ==
    <<Bytes(<<c.CommandType>>, 1), BigEndian16(BodyLength(c))>>
    \o (IF c.SessionID # NoSessionID THEN <<Bytes(<<c.SessionID>>, 1)>> ELSE <<>>)
    \o <<c.Data, c.MAC>>

InitWire ==
    /\ ChannelUnused
    /\ NoManager
    /\ NoWire

\* a step of the program that leaves the channel and the managers alone
WireStep == UNCHANGED <<channelVars, managerVars, frame, parsed, src, ret>>

\* the program constructs a command
CreateCommand ==
    /\ WireStep
    /\ \E c \in WireCommands : command' = c
    /\ wire' = <<>>

\* the program calls Serialize on the command
CallSerialize ==
    /\ WireStep
    /\ command # NoCommand
    /\ wire' = Serialize(command)
    /\ UNCHANGED command

NextWire == CreateCommand \/ CallSerialize
SpecWire == InitWire /\ [][NextWire]_vars

(***************************************************************************)
(* commands.ParseResponse.  A program hands a frame (a sequence of bytes)  *)
(* to ParseResponse; parsed is the pair (Response, error) it returned.  A  *)
(* decoder that slices a payload shorter than it needs panics.             *)
(***************************************************************************)
\* the frames handed to ParseResponse: an opcode, a two-byte length that is
\* the length of the payload, one more, or 256 more, and a payload; and three
\* frames that are too short
ParseOpcodes ==
    {ErrorResponseCode - ResponseCommandOffset, ErrorResponseCode,
     CommandTypeEcho + ResponseCommandOffset, CommandTypeCreateSession + ResponseCommandOffset,
     CommandTypeAuthenticateSession + ResponseCommandOffset,
     CommandTypeSessionMessage + ResponseCommandOffset,
     CommandTypeDeviceInfo + ResponseCommandOffset,
     CommandTypeCloseSession + ResponseCommandOffset,
     CommandTypeGenerateAsymmetricKey + ResponseCommandOffset, CommandTypeEcho, 0}
ParsePayloads ==
    {<<>>, <<0>>, <<4>>, <<255>>, <<4, 0>>, <<2, 1, 3>>, <<2, 1, 3, 0, 0, 0, 7>>,
     <<1, 2, 3, 4, 5, 6, 7, 8, 9>>,
     <<1, 11, 12, 13, 14, 15, 16, 17, 18, 21, 22, 23, 24, 25, 26, 27, 28>>}
Frame(opcode, length, payload) == <<opcode, length \div Uint8, length % Uint8>> \o payload
ParseFrames ==
    {Frame(o, Len(p) + d, p) : o \in ParseOpcodes, p \in ParsePayloads, d \in {0, 1, Uint8}}
    \cup {<<>>, <<ErrorResponseCode>>, <<ErrorResponseCode, 0>>}

\* the bytes of the frame's array that lie past the frame's length (its
\* capacity less its length): none, or four stale bytes
ParseSpares == {<<>>, <<0, 0, 0, 9>>}

\* data[lo:hi] of Go, for 0 <= lo <= hi <= len(data)
Slice(data, lo, hi) == SubSeq(data, lo + 1, hi)

\* what ParseResponse returns: a response (NilResponse for nil) and an error
\* (NilError for nil); a panic is reported as the error Panic
ParsedResponse(type, sid, a, b) == [type |-> type, SessionID |-> sid, A |-> a, B |-> b]
ParseError(kind, code) == [kind |-> kind, Code |-> code]
Returned(resp, err) == [resp |-> resp, err |-> err]
Failed(reason) == Returned(NilResponse, ParseError(reason, 0))
Panic == Failed("panic")

\* &Error{Code: ErrorCode(payload[0])}
parseErrorResponse(payload) ==
    IF Len(payload) # 1
    THEN ParseError("invalid response payload length", 0)
    ELSE ParseError("Error", payload[1])

parseSessionMessage(payload) ==
    IF Len(payload) < 1 + MACLength
    THEN Panic
    ELSE Returned(ParsedResponse("SessionMessageResponse", payload[1],
                                 Slice(payload, 1, Len(payload) - MACLength),
                                 Slice(payload, Len(payload) - MACLength, Len(payload))),
                  NilError)

\* payload[3:7] is sliced first and panics past the capacity of the payload,
\* not past its length; payload[0], payload[1], payload[2] panic past its length
parseDeviceInfoResponse(payload, spare) ==
    IF Len(payload) + Len(spare) < 7 \/ Len(payload) < 3
    THEN Panic
    ELSE Returned(ParsedResponse("DeviceInfoResponse", 0, Slice(payload, 0, 3),
                                 Slice(payload \o spare, 3, 7)),
                  NilError)

\* accepts a payload of two bytes only, and then slices payload[1:3]
parseCreateAsymmetricKeyResponse(payload, spare) ==
    IF Len(payload) # 2
    THEN Failed("invalid response payload length")
    ELSE IF Len(payload) + Len(spare) < 3
    THEN Panic
    ELSE Returned(ParsedResponse("CreateAsymmetricKeyResponse", 0,
                                 Slice(payload \o spare, 1, 3), <<>>),
                  NilError)

parseCreateSessionResponse(payload) ==
    IF Len(payload) # 1 + ChallengeLength + CryptogramLength
    THEN Failed("invalid response payload length")
    ELSE Returned(ParsedResponse("CreateSessionResponse", payload[1],
                                 Slice(payload, 1, 9), Slice(payload, 9, Len(payload))),
                  NilError)

parseEchoResponse(payload) ==
    Returned(ParsedResponse("EchoResponse", 0, payload, <<>>), NilError)

\* the opcode as the dispatch reads it
TransactionTypeRaw(data) == data[1]

\* CommandType(data[0] + ResponseCommandOffset), in uint8
TransactionType(data) == (data[1] + ResponseCommandOffset) % Uint8

\* the length field read as its low byte only
PayloadLengthLowByte(data) == data[3]

\* binary.Read of data[1:3], big-endian
PayloadLength(data) == data[2] * Uint8 + data[3]

ParseResponse(data, spare) ==
    IF Len(data) < 3 THEN Failed("invalid response")
    ELSE LET transactionType == TransactionType(data)
             payloadLength == PayloadLength(data)
             payload == Slice(data, 3, Len(data))
         IN  IF Len(payload) # payloadLength
             THEN Failed("response payload length does not equal the given length")
             ELSE CASE transactionType = CommandTypeDeviceInfo ->
                           parseDeviceInfoResponse(payload, spare)
                    [] transactionType = CommandTypeCreateSession ->
                           parseCreateSessionResponse(payload)
                    [] transactionType = CommandTypeAuthenticateSession ->
                           Returned(NilResponse, NilError)
                    [] transactionType = CommandTypeSessionMessage ->
                           parseSessionMessage(payload)
                    [] transactionType = CommandTypeGenerateAsymmetricKey ->
                           parseCreateAsymmetricKeyResponse(payload, spare)
                    [] transactionType = CommandTypeCloseSession ->
                           Returned(NilResponse, NilError)
                    [] transactionType = CommandTypeEcho ->
                           parseEchoResponse(payload)
                    [] transactionType = ErrorResponseCode ->
                           Returned(NilResponse, parseErrorResponse(payload))
                    [] OTHER -> Failed("response type unknown / not implemented")

InitParse ==
    /\ ChannelUnused
    /\ NoManager
    /\ NoWire

\* a step of the program that leaves the channel, the managers and the
\* command alone
ParseStep == UNCHANGED <<channelVars, managerVars, command, wire, src, ret>>

\* the program receives a frame
ReceiveFrame ==
    /\ ParseStep
    /\ \E data \in ParseFrames : frame' = data
    /\ parsed' = NotParsed

\* the program calls ParseResponse on the frame, a slice of an array that
\* holds spare bytes past it
CallParseResponse ==
    /\ ParseStep
    /\ parsed = NotParsed
    /\ \E spare \in ParseSpares : parsed' = ParseResponse(frame, spare)
    /\ UNCHANGED frame

NextParse == ReceiveFrame \/ CallParseResponse
SpecParse == InitParse /\ [][NextParse]_vars






(***************************************************************************)
(* Vocabulary of the properties of the manager.                            *)
(***************************************************************************)
\* the channels in the pool
Pooled == {sessions[p] : p \in 1..Len(sessions)}
\* a household pass has just returned
PassReturns == hk.at = "deficit" /\ hk' = NoPass

(***************************************************************************)
(* C11.  The pool never holds more channels than the configured pool size, *)
(* and the configured pool size is at most 16, whatever the interleaving   *)
(* of the housekeeper, the recycler and the clients.                       *)
(***************************************************************************)
C11_PoolWithinSize ==
    /\ poolSize <= SessionLimit
    /\ Len(sessions) <= poolSize


(***************************************************************************)
(* C12.  Every channel in the pool is Authenticated: a channel whose       *)
(* creation or authentication failed is never in the pool, and a pooled    *)
(* channel never is Unauthenticated.                                       *)
(***************************************************************************)
C12_PooledAuthenticated ==
    \A p \in 1..Len(sessions) :
        /\ sessions[p] \in 1..Len(channels)
        /\ channels[sessions[p]].SecurityLevel = SecurityLevelAuthenticated

\* a channel is in the pool while a channel whose Authenticate failed exists
C12_Witness ==
    /\ Len(sessions) > 0
    /\ \E c \in 1..Len(channels) :
          /\ channels[c].SecurityLevel = SecurityLevelUnauthenticated
          /\ c \notin Pooled


(***************************************************************************)
(* C13.  A pooled channel whose Counter exceeds 9000 when a housekeeping   *)
(* pass probes it does not survive that pass: when the pass returns, the   *)
(* channel is no longer in the pool.                                       *)
(***************************************************************************)
C13_RetiredStep ==
    PassReturns => \A c \in hk.retired : c \notin Pooled'
C13_RetiredByPass == [][C13_RetiredStep]_vars


(***************************************************************************)
(* C14.  GetSession returns an error when the manager has been destroyed   *)
(* and when the pool is empty; otherwise it returns, without error, a      *)
(* channel that is in the pool at that moment; it never changes the pool   *)
(* or the destroyed flag.                                                  *)
(***************************************************************************)
C14_GetSessionStep ==
    mlast'.op = "GetSession" =>
        /\ IF destroyed
           THEN mlast'.err = "sessionmanager has already been destroyed"
           ELSE IF Len(sessions) = 0
                THEN mlast'.err = "no sessions available"
                ELSE mlast'.err = "nil" /\ mlast'.arg \in Pooled
        /\ mlast'.err # "nil" => mlast'.arg = 0
        /\ sessions' = sessions
        /\ destroyed' = destroyed
C14_GetSession == [][C14_GetSessionStep]_vars

\* GetSession has been refused on a destroyed manager whose pool is not empty
C14_Witness ==
    /\ mlast.op = "GetSession"
    /\ mlast.err = "sessionmanager has already been destroyed"
    /\ destroyed
    /\ Len(sessions) > 0


(***************************************************************************)
(* C15.  Once Destroy has returned (destroyed is set), the background work *)
(* has stopped: no housekeeping pass begins, no keep-alive probe is sent   *)
(* and no new secure channel is created or authenticated.                  *)
(***************************************************************************)
\* a housekeeping pass begins; a probe is sent; a SecureChannel is created
PassBegins == count'.passes > count.passes
ProbeSent == hk.at = "probe" /\ hk.i <= Len(sessions) /\ hk' # hk
ChannelCreated == Len(channels') > Len(channels)
C15_DestroyedStep ==
    destroyed => ~PassBegins /\ ~ProbeSent /\ ~ChannelCreated
C15_DestroyStops == [][C15_DestroyedStep]_vars

\* the same for the beginning of a pass alone
NoPassAfterDestroy == [][destroyed => ~PassBegins]_vars


(***************************************************************************)
(* C16.  When NewSessionManager returns nil for a pool size of 1..16, the  *)
(* synchronous housekeeping pass has authenticated and appended at least   *)
(* one channel; a pass in which every creation failed surfaces an error.   *)
(***************************************************************************)
ManagerReturnsNil ==
    /\ mlast' # mlast
    /\ mlast'.op = "NewSessionManager"
    /\ mlast'.err = "nil"
C16_ReturnStep == ManagerReturnsNil => Len(sessions') >= 1
C16_ChannelOrError == [][C16_ReturnStep]_vars

(***************************************************************************)
(* C17.  NewSessionManager with a pool size above 16 returns an error and  *)
(* no manager: no pool size is stored, no secure channel is created,       *)
(* nothing is pooled and no goroutine is started.                          *)
(***************************************************************************)
Rejected == mlast.op = "NewSessionManager" /\ mlast.arg > SessionLimit
C17_RejectsLargePool ==
    Rejected =>
        /\ mlast.err = "pool size exceeds session limit"
        /\ gpc = [main |-> "returned", housekeeper |-> "off", recycler |-> "off"]
        /\ poolSize = 0 /\ hk = NoPass /\ rc = NoRecycle
        /\ channels = <<>> /\ sessions = <<>>
        /\ Connected = 0 /\ recycleQueue = <<>>
        /\ count = NoCount
C17_Witness == Rejected /\ mlast.arg = SessionLimit + 1 /\ mlast.err # "nil"


(***************************************************************************)
(* C18.  The Connected notification is one-shot: over the lifetime of the  *)
(* manager at most one notification is received from it.                   *)
(***************************************************************************)
C18_ConnectedOnce == count.received <= 1


(***************************************************************************)
(* C19.  The single-session manager swaps a nearly depleted session:       *)
(*  - a SendEncryptedCommand that leaves the Counter of the active session *)
(*    at or above 9000 while no swap is in progress (swapping is false)    *)
(*    starts a swap;                                                       *)
(*  - when the new channel has authenticated it becomes the active         *)
(*    session, Authenticated with Counter 1, and the previous session is   *)
(*    closed (Close is sent on it when it can still send);                 *)
(*  - under fair scheduling a swap started for the active session          *)
(*    eventually replaces it, unless the HSM refused the new session or    *)
(*    answered a ping with a response of another type.                     *)
(***************************************************************************)
\* a step is a SendEncryptedCommand of the manager, from a client or from pingRoutine
SendReturns ==
    /\ session # 0
    /\ \/ count'.calls > count.calls
       \/ gpc.housekeeper = "recv" /\ gpc'.housekeeper # "recv"
C19_HealthStep ==
    SendReturns /\ ~swapping /\ channels'[session].Counter >= RecycleAbove
        => /\ Len(sw') > Len(sw)
           /\ sw'[Len(sw) + 1] = SwapCall("go", session)
           /\ session' = session

\* a step in which a new channel authenticated
NewChannelAuthenticated == Len(channels') > Len(channels)
C19_ReplaceStep ==
    NewChannelAuthenticated
        => /\ session' = Len(channels')
           /\ channels'[session'] = AuthenticatedChannel
           /\ session # 0 /\ CanSend(session) => channels'[session].closed

\* a swap was started for the active session c; the HSM refused the new session
SwapStartedFor(c) == session = c /\ \E i \in 1..Len(sw) : sw[i] = SwapCall("go", c)
SwapRefused(c) == \E i \in 1..Len(sw) : sw[i].old = c /\ sw[i].failed
\* the sessions a swap can be started for: a session is brought to RecycleAbove
\* by a call, and each earlier call started at most two calls of swapSession
SwappedSessions == 1..(2 * MaxClientCalls - 1)
RECURSIVE TotalLen(_)
TotalLen(fields) == IF fields = <<>> THEN 0 ELSE Head(fields).len + TotalLen(Tail(fields))
LengthField(w) == w[2].bytes[1] * Uint8 + w[2].bytes[2]
BodyOf(w) == SubSeq(w, 3, Len(w))
Serialized == wire # <<>>
C20_FieldsInOrder ==
    Serialized =>
        /\ wire[1] = Bytes(<<command.CommandType>>, 1)
        /\ wire[2].len = 2
        /\ BodyOf(wire) = (IF command.SessionID # NoSessionID
                           THEN <<Bytes(<<command.SessionID>>, 1)>> ELSE <<>>)
                          \o <<command.Data, command.MAC>>
C20_LengthIsBodyLength ==
    Serialized =>
        /\ C20_FieldsInOrder
        /\ LengthField(wire) = command.Data.len
                               + (IF command.SessionID # NoSessionID THEN 1 ELSE 0)
                               + (IF command.MAC.len = MACLength THEN MACLength ELSE 0)
        /\ LengthField(wire) = TotalLen(BodyOf(wire))

\* the same for the bodies a uint16 can count
C20_ShortBodies ==
    Serialized /\ TotalLen(BodyOf(wire)) < Uint16 =>
        /\ C20_FieldsInOrder
        /\ LengthField(wire) = TotalLen(BodyOf(wire))


(***************************************************************************)
(* C21.  ParseResponse on a frame whose opcode byte is 0xFF and whose      *)
(* payload is exactly one byte returns a card error carrying that byte as  *)
(* its code, and no response.                                              *)
(***************************************************************************)
\* ParseResponse has returned; the frame has a payload of one byte, counted
\* as one by its length field
Parsed == parsed # NotParsed
OneBytePayload == Len(frame) = 4 /\ frame[2] = 0 /\ frame[3] = 1
CardError(code) == Returned(NilResponse, ParseError("Error", code))
RECURSIVE ChainLength(_)
ChainLength(chain) ==
    IF chain = ZeroChain.bytes THEN 0
    ELSE IF chain[1] = "chain" THEN chain[2]
    ELSE 1 + ChainLength(chain[3][2])
NoExchange == channelLock = NoCaller
C22_Lockstep ==
    NoExchange /\ SecurityLevel = SecurityLevelAuthenticated
        => ChainLength(MACChainValue.bytes) = Counter


(***************************************************************************)
(* C23.  MACChainValue is all-zero on a new channel; it is replaced by the *)
(* full 16-byte CMAC of every MACed command the channel sends              *)
(* (AUTHENTICATE_SESSION and each SESSION_MESSAGE) before that command is  *)
(* transmitted; that value is the prefix of the MAC input of the next      *)
(* command and of the verification of the current response; response       *)
(* verification, SendCommand and every rejected call leave MACChainValue   *)
(* unchanged.                                                              *)
(***************************************************************************)
MACedCommands == {CommandTypeAuthenticateSession, CommandTypeSessionMessage}
MACSteps == {"authMAC", "sendMAC"}
TransmitSteps == {"authTransmit", "sendTransmit"}
Rejections == {"the session is already authenticated", "the session is not authenticated",
               "channel has reached its message limit; please recreate"}
\* the full CMAC, under S_MAC, of the command c chained to the chain value prev
CommandCMAC(prev, c) ==
    CMAC(keyChain.MACKey,
         <<"mac", prev.bytes, c.CommandType, (1 + c.Data.len + MACLength) % Uint16,
           c.SessionID, c.Data.bytes>>)
\* no MACed command has been sent or prepared on a channel that is as constructed
NewChannel ==
    /\ SecurityLevel = SecurityLevelUnauthenticated
    /\ \A i \in 1..Len(sent) : sent[i].CommandType \notin MACedCommands
    /\ \A t \in Callers : pc[t] \notin TransmitSteps
C23_ChainStep ==
    \* only the MAC step of a MACed command changes the chain value, to the CMAC
    \* of the command over the previous chain value, before the command is sent
    /\ MACChainValue' # MACChainValue =>
          \E t \in Callers :
             /\ channelLock = t
             /\ pc[t] \in MACSteps /\ pc'[t] \in TransmitSteps
             /\ local'[t].outer.CommandType \in MACedCommands
             /\ MACChainValue' = CommandCMAC(MACChainValue, local'[t].outer)
             /\ MACChainValue'.len = 16
             /\ local'[t].outer.MAC = Truncate(MACChainValue', MACLength)
             /\ sent' = sent
    \* every request leaves the chain value alone, and a MACed one carries the
    \* first bytes of the chain value
    /\ sent' # sent =>
          /\ MACChainValue' = MACChainValue
          /\ LastSent'.CommandType \in MACedCommands =>
                \E t \in Callers :
                   /\ channelLock = t /\ pc[t] \in TransmitSteps
                   /\ local[t].outer.CommandType = LastSent'.CommandType
                   /\ local[t].outer.MAC = Truncate(MACChainValue, MACLength)
    \* a response passes verification when its MAC is the CMAC over the chain value
    /\ \A t \in Callers :
          pc[t] = "sendVerify" /\ pc'[t] = "sendIncr" =>
              /\ local[t].resp.B = ResponseCMAC8(local[t].resp)
              /\ MACChainValue' = MACChainValue
    /\ (result' # result /\ result'.err \in Rejections) => MACChainValue' = MACChainValue
C23_ChainValue ==
    /\ [](NewChannel => MACChainValue = ZeroChain)
    /\ [][C23_ChainStep]_vars
\* a command was MACed over a chain value that is not the zero chain, sent, and
\* its response verified
C23_Witness ==
    /\ result.op = "SendEncryptedCommand" /\ result.err = "nil"
    /\ LastSent.CommandType = CommandTypeSessionMessage
    /\ ChainLength(MACChainValue.bytes) = 2


(***************************************************************************)
(* C24.  A housekeeping pass retires a pooled channel exactly when its     *)
(* Echo probe returns an error, the probe's response is not an Echo        *)
(* response, the echoed bytes differ from the probe payload, or its        *)
(* Counter exceeds 9000 after the probe; in each of these cases the pass   *)
(* goes on and the channel is queued for retirement, and a channel for     *)
(* which none of them holds stays in the pool.                             *)
(***************************************************************************)
\* the pass is at the probe of a session of the pool
AtProbe == hk.at = "probe" /\ hk.i <= Len(sessions)
\* the four cases, of the probe result and the Counter after the probe
Unhealthy(probe, counter) ==
    \/ probe = "error"
    \/ probe = "other response"
    \/ probe = "wrong echo"
    \/ counter > RecycleAbove
C24_ProbeStep ==
    AtProbe /\ hk' # hk =>
        LET c == sessions[hk.i]
        IN  IF Unhealthy(hk'.probe, channels'[c].Counter)
            THEN \* the pass goes on to queue the channel
                 /\ ~crashed'
                 /\ hk'.at = "enqueue" /\ hk'.i = hk.i
            ELSE \* the pass goes on to the next channel
                 /\ ~crashed'
                 /\ hk'.at = "probe" /\ hk'.i = hk.i + 1
                 /\ sessions' = sessions /\ recycleQueue' = recycleQueue
C24_RetiresUnhealthy == [][C24_ProbeStep]_vars


(***************************************************************************)
(* C25.  After one housekeeping pass in which every channel creation       *)
(* succeeds and no channel is retired, the pool holds exactly pool_size    *)
(* channels (in particular after the synchronous pass run by               *)
(* NewSessionManager on an empty pool).                                    *)
(***************************************************************************)
\* no creation has failed and no channel has been retired since the manager was
\* made: every channel created is authenticated, open and in the pool, and the
\* recycler has nothing to do
NothingFailedOrRetired ==
    /\ Len(channels) < MaxChannels
    /\ \A c \in 1..Len(channels) :
          /\ channels[c].SecurityLevel = SecurityLevelAuthenticated
          /\ ~channels[c].closed
          /\ c \in Pooled
    /\ recycleQueue = <<>>
    /\ gpc.recycler \in {"off", "recv"}
C25_PassStep ==
    PassReturns /\ NothingFailedOrRetired' /\ ~destroyed' => Len(sessions') = poolSize
C25_PoolFilled == [][C25_PassStep]_vars


(***************************************************************************)
(* C26.  A retired channel is first removed from the pool under the pool   *)
(* lock and only afterwards closed: the recycler never sends CLOSE_SESSION *)
(* on a channel that is still in the pool, so GetSession never returns a   *)
(* channel that the recycler has already closed.                           *)
(***************************************************************************)
\* the recycler calls channel.Close() in this step
RecyclerCloses == gpc.recycler = "close" /\ gpc'.recycler # "close"
\* a client's call of Destroy runs in this step
Destroys == destroyed' /\ count'.calls # count.calls
\* the channels a CLOSE_SESSION is answered on in this step
ClosedNow == {c \in 1..Len(channels) : ~channels[c].closed /\ channels'[c].closed}
C26_CloseStep ==
    /\ RecyclerCloses =>
          /\ rc.channel \notin Pooled
          /\ lock # "recycler"
          /\ ClosedNow \subseteq {rc.channel}
    /\ ~Destroys => ClosedNow \cap Pooled = {}
    /\ (mlast'.op = "GetSession" /\ mlast'.err = "nil") =>
          /\ mlast'.arg \in Pooled
          /\ ~channels[mlast'.arg].closed
C26_RemovedThenClosed == [][C26_CloseStep]_vars
\* the recycler has closed a channel it had removed, and GetSession has returned
\* a channel since
C26_Witness ==
    /\ mlast.op = "GetSession" /\ mlast.err = "nil"
    /\ ~destroyed
    /\ \E c \in 1..Len(channels) : channels[c].closed /\ c \notin Pooled


(***************************************************************************)
(* C27.  A failed channel creation (NewSecureChannel or Authenticate       *)
(* returning an error) leaves the pool, the destroyed flag and the         *)
(* Connected signal unchanged and does not stop the manager: the failed    *)
(* channel is never added, and while the pool is below pool_size a later   *)
(* housekeeping pass attempts creation again.                              *)
(***************************************************************************)
\* createSession returns an error in this step, to household or to the recycler
PassCreationFails == hk.at = "deficit" /\ hk'.at = "deficit" /\ hk'.n = hk.n + 1
RecyclerCreationFails == gpc.recycler = "close" /\ gpc'.recycler = "recv"
CreationFails == PassCreationFails \/ RecyclerCreationFails
\* a pass evaluates the condition of its creation loop for the first time
FirstDeficit == hk.at = "deficit" /\ hk.n = 0 /\ hk' # hk
\* createSession is called in this step of a pass
CreationAttempted == hk.at = "deficit" /\ (hk'.at = "append" \/ hk'.n = hk.n + 1)
C27_FailureStep ==
    /\ CreationFails =>
          /\ sessions' = sessions /\ destroyed' = destroyed /\ Connected' = Connected
          /\ lock' = lock /\ ~crashed'
    \* the goroutine goes on: household with its loop, the recycler with its queue
    /\ PassCreationFails => hk'.by = hk.by /\ gpc' = gpc
    /\ RecyclerCreationFails => hk' = hk /\ gpc'.housekeeper = gpc.housekeeper
    /\ (FirstDeficit /\ Len(sessions) < poolSize) => CreationAttempted
C27_FailedCreation ==
    /\ [](\A c \in Pooled : channels[c].SecurityLevel = SecurityLevelAuthenticated)
    /\ [][C27_FailureStep]_vars
\* a creation failed in the pass of NewSessionManager, and the pass of the
\* housekeeper has created a channel
C27_Witness ==
    /\ hk.by = "housekeeper" /\ hk.at = "append"
    /\ \E c \in 1..Len(channels) : channels[c] = FailedChannel
    /\ sessions = <<>>


(***************************************************************************)
(* C28.  The manager's mutex is held only for pool mutation and session    *)
(* selection and is never held while a connector request is in flight:     *)
(* the Echo probes of housekeeping and the Close calls of Destroy run      *)
(* without the manager lock.                                               *)
(***************************************************************************)
\* a step that makes connector requests: a probe, or a creation, an exchange or
\* a Close that leaves its mark on a channel
ConnectorRequest == (AtProbe /\ hk' # hk) \/ channels' # channels
\* the step runs between s.lock.Lock() and the Unlock that goes with it: a step
\* of the goroutine that holds the lock, or the whole of Destroy
UnderManagerLock == (lock # NoCaller /\ lock' = lock) \/ Destroys
C28_RequestStep == ConnectorRequest => ~UnderManagerLock
C28_NoRequestUnderLock == [][C28_RequestStep]_vars


(***************************************************************************)
(* C29.  Under fair scheduling and an HSM that accepts every session       *)
(* creation and answers every probe, the pooled manager eventually holds   *)
(* pool_size channels, and every channel that housekeeping retires is      *)
(* eventually removed from the pool and replaced by a newly authenticated  *)
(* one.                                                                    *)
(***************************************************************************)
(***************************************************************************)
(* The pooled manager in front of an HSM that accepts every session and    *)
(* answers every probe, with goroutines that are scheduled fairly and      *)
(* clients that do not call Destroy.                                       *)
(***************************************************************************)
\* no creation fails while the manager can have another channel, and the probe
\* of a channel that can send is answered with the echo
HSMAccepts ==
    /\ ChannelCreated => channels'[Len(channels')] = AuthenticatedChannel
    /\ (PassCreationFails \/ RecyclerCreationFails) => Len(channels) = MaxChannels
    /\ ProbeSent =>
          \/ hk'.probe = "echo"
          \/ hk'.probe = "error" /\ EchoResults(sessions[hk.i]) = {"error"}

\* the steps of household (in NewSessionManager and in the housekeeper goroutine)
Housekeeper ==
    /\ HkBegin \/ HkLock \/ HkProbe \/ HkEnqueue \/ HkUnlock \/ HkDeficit \/ HkAppend
    /\ HSMAccepts

\* the steps of the recycler goroutine
Recycler ==
    /\ RcRecv \/ RcRemove \/ RcReplace \/ RcAppend
    /\ HSMAccepts

\* clients send commands on a session GetSession gave them until the channel
\* refuses the next one
ClientExhausts ==
    /\ ClientCall
    /\ \E p \in 1..Len(sessions) :
          /\ ~channels[sessions[p]].closed
          /\ CanSend(sessions[p])
          /\ ManagerStep("none", "none", 0)
          /\ channels' = [channels EXCEPT ![sessions[p]].Counter = MaxMessagesPerSession]
    /\ count' = [count EXCEPT !.calls = @ + 1]
    /\ UNCHANGED <<sessions, lock, poolSize, destroyed, Connected, recycleQueue, gpc, hk, rc,
                   crashed, singleVars>>

\* the calls of the clients
Clients == GetSession \/ ReceiveConnected \/ ClientSends \/ ClientExhausts

NextPoolFair ==
    \/ NewSessionManager
    \/ Housekeeper
    \/ Recycler
    \/ Clients
SpecPoolFair ==
    /\ InitPool
    /\ [][NextPoolFair]_vars
    /\ WF_vars(NewSessionManager)
    /\ WF_vars(Housekeeper)
    /\ WF_vars(Recycler)

\* the bounds leave the manager no further pass, or no further channel
PassesSpent == count.passes = MaxPasses
ChannelsSpent == Len(channels) = MaxChannels
\* the pool holds poolSize channels, or fewer when a bound keeps it from being
\* filled
PoolFull ==
    \/ Len(sessions) = poolSize
    \/ Len(sessions) < poolSize /\ ~crashed /\ (PassesSpent \/ ChannelsSpent)
\* housekeeping has queued channel c when the manager had made n channels
Retired(c, n) ==
    /\ Len(channels) = n
    /\ \E q \in 1..Len(recycleQueue) : recycleQueue[q] = c
\* c is out of the pool and a channel made after the n-th, authenticated, is in it
Replaced(c, n) ==
    /\ c \notin Pooled
    /\ \E d \in Pooled : d > n /\ channels[d].SecurityLevel = SecurityLevelAuthenticated
GetSessionReturned(c) == mlast = Did("GetSession", "nil", c)
Queued(c) == \E q \in 1..Len(recycleQueue) : recycleQueue[q] = c
C30_ReturnsUsable ==
    \A c \in 1..Len(channels) :
        GetSessionReturned(c) =>
            /\ channels[c].Counter < MaxMessagesPerSession
            /\ ~Queued(c)


(***************************************************************************)
(* C31.  The pooled manager never deadlocks: no interleaving of            *)
(* housekeeping passes (which enqueue onto the bounded recycle queue while *)
(* holding the pool lock) with the recycler (which needs the pool lock to  *)
(* remove a channel and to append its replacement) leaves the housekeeper  *)
(* blocked forever.                                                        *)
(***************************************************************************)
\* bound: the passes of the housekeeper goroutine when the recycle queue is to
\* be filled
MaxTicks == 12

\* the housekeeper goroutine wakes up and calls household(), every 15 seconds
HkTick ==
    /\ gpc.housekeeper = "sleep"
    /\ count.passes < MaxTicks
    /\ ManagerStep("none", "none", 0)
    /\ gpc' = [gpc EXCEPT !.housekeeper = "household"]
    /\ hk' = [NoPass EXCEPT !.by = "housekeeper", !.at = "lock"]
    /\ count' = [count EXCEPT !.passes = @ + 1]
    /\ UNCHANGED <<sessions, lock, poolSize, destroyed, Connected, recycleQueue, channels, rc,
                   crashed, singleVars>>

\* the steps of household over many passes
LongHousekeeper ==
    /\ HkTick \/ HkLock \/ HkProbe \/ HkEnqueue \/ HkUnlock \/ HkDeficit \/ HkAppend
    /\ HSMAccepts

\* the manager over many passes, in front of an HSM that accepts every session
\* and answers every probe
NextPoolLong ==
    \/ NewSessionManager
    \/ LongHousekeeper
    \/ Recycler
    \/ ClientSends
    \/ GetSession
SpecPoolLong == InitPool /\ [][NextPoolLong]_vars

\* household is blocked in s.recycleQueue <- session with the lock in its hands
SendBlocked ==
    /\ hk.at = "enqueue"
    /\ lock = hk.by
    /\ Len(recycleQueue) = RecycleQueueCap
\* the recycler is blocked in manager.lock.Lock() (of the removal or of createSession)
RecyclerBlocked == gpc.recycler \in {"remove", "append"} /\ lock # NoCaller
C31_NoDeadlock == ~(SendBlocked /\ RecyclerBlocked /\ ~crashed)


(***************************************************************************)
(* C32.  The recycler only ever dequeues channels that are currently in    *)
(* the pool: a channel is queued for recycling at most once while it is in *)
(* the pool, so the position looked up for removal is always a valid index *)
(* and removal takes out exactly that channel and no other.                *)
(***************************************************************************)
\* no channel is in the queue twice, or in the queue and in the recycler's hands
QueuedOnce ==
    /\ \A q1, q2 \in 1..Len(recycleQueue) :
          q1 # q2 => recycleQueue[q1] # recycleQueue[q2]
    /\ \A q \in 1..Len(recycleQueue) :
          /\ recycleQueue[q] \in Pooled
          /\ recycleQueue[q] # rc.channel
\* the recycler is about to look up the channel it has dequeued
AtRemoval == gpc.recycler = "remove"
C32_RemovalStep ==
    (AtRemoval /\ gpc'.recycler # "remove") =>
        /\ pos(sessions, rc.channel) >= 0
        /\ Pooled' = Pooled \ {rc.channel}
        /\ Len(sessions') = Len(sessions) - 1
C32_DequeuesPooled ==
    /\ [](QueuedOnce /\ (AtRemoval => rc.channel \in Pooled))
    /\ [][C32_RemovalStep]_vars


(***************************************************************************)
(* C33.  In the single-session manager at most one swapSession is in       *)
(* progress at any time: the swapping flag prevents a second swap from     *)
(* being started while one is running, so one depleted session causes at   *)
(* most one new HSM session to be opened.                                  *)
(***************************************************************************)
\* the calls of swapSession that have set s.swapping and have not returned
SwapsRunning == {i \in 1..Len(sw) : sw[i].at \in {"create", "end"}}
C33_OneSwap == Cardinality(SwapsRunning) <= 1


(***************************************************************************)
(* C34.  In the single-session manager a swapSession that fails leaves the *)
(* active session and the destroyed flag unchanged and does not close the  *)
(* old session; the active session is replaced only by a channel whose     *)
(* Authenticate succeeded, so a non-nil active session is always           *)
(* Authenticated.                                                          *)
(***************************************************************************)
\* a call of swapSession gets its error in this step
SwapFails == \E i \in 1..Len(sw) : sw[i].at = "create" /\ sw'[i].at = "end" /\ sw'[i].failed
C34_SwapStep ==
    /\ SwapFails =>
          /\ session' = session /\ destroyed' = destroyed
          /\ channels' = channels
    /\ (gpc.main = "start" /\ mlast'.err # "nil") => session' = 0 /\ channels' = channels
    /\ session' # session =>
          /\ session' = Len(channels') /\ Len(channels') = Len(channels) + 1
          /\ channels'[session'].SecurityLevel = SecurityLevelAuthenticated
          /\ ~SwapFails
C34_FailedSwap ==
    /\ [](session # 0 => channels[session].SecurityLevel = SecurityLevelAuthenticated)
    /\ [][C34_SwapStep]_vars
\* a swap has failed and the session it was to replace is still the active one
C34_Witness ==
    \E i \in 1..Len(sw) :
        /\ sw[i].failed /\ sw[i].old = session
        /\ ~channels[session].closed


(***************************************************************************)
(* C35.  ParseResponse returns an error, and no response, for every input  *)
(* shorter than 3 bytes and for every input whose 2-byte big-endian length *)
(* field differs from the number of bytes that follow the 3-byte header.   *)
(***************************************************************************)
ShortFrame == Len(frame) < 3
LengthMismatch == Len(frame) >= 3 /\ frame[2] * Uint8 + frame[3] # Len(frame) - 3
ReturnedError == parsed.resp = NilResponse /\ parsed.err # NilError /\ parsed # Panic
C35_RejectsMalformed ==
    Parsed /\ (ShortFrame \/ LengthMismatch) => ReturnedError

\* an Echo response whose length field is 256 more than its payload was
\* rejected for its length
C35_Witness ==
    /\ Parsed /\ LengthMismatch
    /\ frame[1] = CommandTypeEcho + ResponseCommandOffset
    /\ frame[2] = 1 /\ frame[3] = Len(frame) - 3
    /\ parsed = Failed("response payload length does not equal the given length")


(***************************************************************************)
(* C36.  On every input of at least 3 bytes with a consistent length       *)
(* field ParseResponse returns a response or an error and never panics: a  *)
(* decoder given a payload shorter than it needs returns an error, in      *)
(* particular a SessionMessage response with a payload under 9 bytes and a *)
(* DeviceInfo response with a payload under 7 bytes.                       *)
(***************************************************************************)
WellFormed == Len(frame) >= 3 /\ frame[2] * Uint8 + frame[3] = Len(frame) - 3
ResponseTo(type) == WellFormed /\ frame[1] = type + ResponseCommandOffset
ShortSessionMessage == ResponseTo(CommandTypeSessionMessage) /\ Len(frame) - 3 < 1 + MACLength
ShortDeviceInfo == ResponseTo(CommandTypeDeviceInfo) /\ Len(frame) - 3 < 7
C36_NeverPanics ==
    Parsed /\ WellFormed
        => /\ parsed # Panic
           /\ ShortSessionMessage \/ ShortDeviceInfo => ReturnedError


(***************************************************************************)
(* C37.  For every request opcode r the parser supports, a well-formed     *)
(* frame with opcode byte r | 0x80 goes to the decoder of r (the 8-bit     *)
(* addition of 0x80 wraps to r); a frame whose opcode byte has no response *)
(* bit is never decoded as the successful response of a supported command. *)
(***************************************************************************)
\* the payload of the frame, and what the decoder of r makes of it with some
\* spare bytes behind it
FramePayload == Slice(frame, 3, Len(frame))
DecodedBy(type, spare) ==
    CASE type = CommandTypeDeviceInfo -> parseDeviceInfoResponse(FramePayload, spare)
      [] type = CommandTypeCreateSession -> parseCreateSessionResponse(FramePayload)
      [] type = CommandTypeSessionMessage -> parseSessionMessage(FramePayload)
      [] type = CommandTypeGenerateAsymmetricKey ->
             parseCreateAsymmetricKeyResponse(FramePayload, spare)
      [] type = CommandTypeEcho -> parseEchoResponse(FramePayload)
      [] OTHER -> Returned(NilResponse, NilError)
SupportedTypes ==
    {CommandTypeDeviceInfo, CommandTypeCreateSession, CommandTypeAuthenticateSession,
     CommandTypeSessionMessage, CommandTypeGenerateAsymmetricKey,
     CommandTypeCloseSession, CommandTypeEcho}
NoResponseBit == WellFormed /\ frame[1] < ResponseCommandOffset
C37_Dispatch ==
    Parsed =>
        /\ \A r \in SupportedTypes :
               ResponseTo(r) => \E spare \in ParseSpares : parsed = DecodedBy(r, spare)
        /\ NoResponseBit => parsed.resp = NilResponse /\ parsed.err # NilError

\* an Echo response was decoded as such, payload and all
C37_Witness ==
    /\ Parsed /\ ResponseTo(CommandTypeEcho) /\ Len(frame) = 5
    /\ parsed = Returned(ParsedResponse("EchoResponse", 0, <<frame[4], frame[5]>>, <<>>),
                         NilError)


(***************************************************************************)
(* pad and unpad of package securechannel.  A program hands a byte string  *)
(* to pad or to unpad, or hands what pad returned to unpad; ret is what    *)
(* the last call returned.                                                 *)
(***************************************************************************)
\* the byte strings handed to pad and unpad: up to three bytes out of 0x00,
\* 0x80 and 0x05, behind nothing, 13 bytes, one block or 29 bytes
PadTails == UNION {[1..n -> {0, PadMarker, 5}] : n \in 0..3}
PadHeads == {[i \in 1..n |-> 7] : n \in {0, BlockSize - 3, BlockSize, 2 * BlockSize - 3}}
PadInputs == {h \o t : h \in PadHeads, t \in PadTails}

\* bytes.Repeat([]byte{0}, n)
Zeros(n) == [i \in 1..n |-> 0]

\* pad that appends the 0x00 bytes without the 0x80 before them
padZeros(data) ==
    data \o Zeros(BlockSize - (Len(data) % BlockSize))

pad(data) ==
    IF BlockSize - (Len(data) % BlockSize) = 0
    THEN data
    ELSE LET padding == BlockSize - (Len(data) % BlockSize) - 1
             padtext == <<PadMarker>> \o Zeros(padding)
         IN  data \o padtext

\* the loop of unpad from index i down (i counts from 1), padLen so far: a
\* 0x00 is counted, a 0x80 is counted and ends the loop, any other byte is
\* passed over
RECURSIVE ScanPadding(_, _, _)
ScanPadding(data, i, padLen) ==
    IF i < 1 THEN padLen
    ELSE IF data[i] = 0 THEN ScanPadding(data, i - 1, padLen + 1)
    ELSE IF data[i] = PadMarker THEN padLen + 1
    ELSE ScanPadding(data, i - 1, padLen)

\* unpad of a non-empty slice
unpad(data) ==
    IF data[Len(data)] # 0 /\ data[Len(data)] # PadMarker
    THEN data
    ELSE Slice(data, 0, Len(data) - ScanPadding(data, Len(data), 0))

InitPad ==
    /\ ChannelUnused
    /\ NoManager
    /\ NoWire

\* a step of the program that leaves everything but src and ret alone
PadStep == UNCHANGED <<channelVars, managerVars, command, wire, frame, parsed>>

\* the program has a byte string to pad or unpad
TakeBytes ==
    /\ PadStep
    /\ \E data \in PadInputs : src' = data
    /\ ret' = NoReturn

CallPad ==
    /\ PadStep
    /\ ret = NoReturn
    /\ ret' = Return("pad", pad(src), FALSE)
    /\ UNCHANGED src

\* src[len(src)-1] of an empty slice panics
CallUnpad ==
    /\ PadStep
    /\ ret = NoReturn
    /\ ret' = IF Len(src) = 0
              THEN Return("unpad", <<>>, TRUE)
              ELSE Return("unpad", unpad(src), FALSE)
    /\ UNCHANGED src

\* unpad(pad(src))
CallUnpadPadded ==
    /\ PadStep
    /\ ret.op = "pad"
    /\ ret' = IF Len(ret.bytes) = 0
              THEN Return("unpad(pad)", <<>>, TRUE)
              ELSE Return("unpad(pad)", unpad(ret.bytes), FALSE)
    /\ UNCHANGED src

NextPad == TakeBytes \/ CallPad \/ CallUnpad \/ CallUnpadPadded
SpecPad == InitPad /\ [][NextPad]_vars


(***************************************************************************)
(* C38.  pad returns its input unchanged whenever the input length is a    *)
(* multiple of 16, the empty input included.                               *)
(***************************************************************************)
Padded == ret.op = "pad"
Aligned(data) == Len(data) % BlockSize = 0
C38_AlignedUnchanged ==
    Padded /\ Aligned(src) => ret.bytes = src


(***************************************************************************)
(* C39.  For every byte string s whose length is not a multiple of 16,     *)
(* pad(s) is s followed by 0x80 and then the fewest 0x00 bytes that bring  *)
(* the length to a multiple of 16, and unpad(pad(s)) is s.                 *)
(***************************************************************************)
\* seq is 0x80 followed by 0x00 bytes only
PaddingShaped(seq) ==
    /\ Len(seq) >= 1
    /\ seq[1] = PadMarker
    /\ \A i \in 2..Len(seq) : seq[i] = 0
\* the bytes of whole that follow its first n bytes
After(whole, n) == SubSeq(whole, n + 1, Len(whole))
IsPrefix(part, whole) ==
    Len(part) <= Len(whole) /\ SubSeq(whole, 1, Len(part)) = part
RoundTripped == ret.op = "unpad(pad)"
C39_PadsAndRoundTrips ==
    ~Aligned(src) =>
        /\ Padded =>
               /\ IsPrefix(src, ret.bytes)
               /\ PaddingShaped(After(ret.bytes, Len(src)))
               /\ Aligned(ret.bytes)
               /\ Len(ret.bytes) - Len(src) <= BlockSize
        /\ RoundTripped => ~ret.panic /\ ret.bytes = src

\* a string of 15 bytes that ends in 0x80 0x00 came back from unpad(pad(s))
C39_Witness ==
    /\ RoundTripped /\ ret.bytes = src
    /\ Len(src) = BlockSize - 1
    /\ src[Len(src) - 1] = PadMarker /\ src[Len(src)] = 0


(***************************************************************************)
(* C40.  For every non-empty input, unpad returns the input unchanged when *)
(* its last byte is neither 0x00 nor 0x80; otherwise it removes exactly    *)
(* the trailing run of 0x00 bytes together with the single 0x80 that       *)
(* immediately precedes that run: the removed suffix is 0x80 followed by   *)
(* zero or more 0x00 bytes, and no other byte is removed or skipped over.  *)
(***************************************************************************)
Unpadded == ret.op = "unpad" /\ ~ret.panic
LastByte(data) == data[Len(data)]
C40_RemovesPadding ==
    Unpadded /\ Len(src) > 0 =>
        IF LastByte(src) # 0 /\ LastByte(src) # PadMarker
        THEN ret.bytes = src
        ELSE /\ IsPrefix(ret.bytes, src)
             /\ PaddingShaped(After(src, Len(ret.bytes)))

====
